---- MODULE Spec2Model ----
(***************************************************************************)
(* Model of showdex's matchup adapter, createSmogonPokemon()               *)
(* (src/src/utils/calc/createSmogonPokemon.ts).  The adapter is a          *)
(* synchronous function of a store snapshot: the state is the snapshot     *)
(* (format, the two combatants, the field, the move) and the value each    *)
(* call returned.  One action per call site: the adapter is called once    *)
(* for the player's combatant and once, with the roles exchanged, for the  *)
(* opposing combatant.  Two more functions are modelled the same way, each *)
(* under a specification of its own: the preset matcher, appliedPreset()   *)
(* (SpecPreset), the dehydrators of src/src/utils/hydro/dehydrators.ts     *)
(* (SpecHydro), and the move dropdown's buildMoveOptions() (SpecMoves).    *)
(***************************************************************************)
EXTENDS Integers, Sequences, FiniteSets, TLC

VARIABLES format, dexLoaded, pokemon, opponentPokemon, field, moveName,
          smogonPokemon, smogonOpponent,
          preset, applied,
          encoder, value, other, dehydrated,
          moveOptions

\* the arguments and the results of createSmogonPokemon()
calcVars == <<format, dexLoaded, pokemon, opponentPokemon, field, moveName,
              smogonPokemon, smogonOpponent>>
\* the preset argument and the result of appliedPreset()
presetVars == <<preset, applied>>

\* the encoder called, the two values handed to it and what it returned
hydroVars == <<encoder, value, other, dehydrated>>

\* the list buildMoveOptions() returned
moveVars == <<moveOptions>>

vars == <<calcVars, presetVars, hydroVars, moveVars>>

(***************************************************************************)
(* JavaScript values.  null and undefined are one value here (the code     *)
(* only tests them with ??, ?., || and !).  Strings and numbers are kept   *)
(* apart: NULL is the absent string, NullNum the absent number.            *)
(***************************************************************************)
NULL == "<null>"
NullNum == 0 - 1000
\* the boolean `false` where the code's expression is otherwise a number
FalseNum == 0 - 2000

TruthyStr(s) == s # NULL /\ s # ""
TruthyNum(n) == n # NullNum /\ n # 0 /\ n # FalseNum
\* a ?? b
CoalesceStr(a, b) == IF a # NULL THEN a ELSE b
CoalesceNum(a, b) == IF a # NullNum THEN a ELSE b
\* a || b
OrStr(a, b) == IF TruthyStr(a) THEN a ELSE b
OrNum(a, b) == IF TruthyNum(a) THEN a ELSE b

Stats == {"hp", "atk", "def", "spa", "spd", "spe"}
\* a stats table; a missing key and a null table both read as NullNum
Table(hp, atk, def, spa, spd, spe) ==
  [s \in Stats |-> CASE s = "hp" -> hp [] s = "atk" -> atk [] s = "def" -> def
                     [] s = "spa" -> spa [] s = "spd" -> spd [] OTHER -> spe]
NoTable == [s \in Stats |-> NullNum]

\* the absent combatant / field (pokemon?.x, field?.x)
NoPokemon == [absent |-> TRUE]
NoField == [absent |-> TRUE]
\* the absent preset (preset?.x)
NoPreset == [absent |-> TRUE]
\* null or undefined where the value may be of any type
JsNull == [t |-> "null"]

(***************************************************************************)
(* Collaborators that live outside src/ (@showdex/utils/*, consts).        *)
(***************************************************************************)
\* formatId(): lower-cases and drops everything but letters and digits
formatId(s) ==
  CASE s = "Static" -> "static"
    [] s = "Pressure" -> "pressure"
    [] s = "Multiscale" -> "multiscale"
    [] s = "Shadow Shield" -> "shadowshield"
    [] s = "Sword of Ruin" -> "swordofruin"
    [] s = "Beads of Ruin" -> "beadsofruin"
    [] s = "Protean" -> "protean"
    [] s = "Libero" -> "libero"
    [] s = "Intrepid Sword" -> "intrepidsword"
    [] s = "Download" -> "download"
    [] OTHER -> ""

\* String.prototype.endsWith('ofruin') over the ids above
EndsWithOfRuin(id) == id \in {"swordofruin", "beadsofruin"}

PokemonToggleAbilities ==
  {"Beads of Ruin", "Multiscale", "Shadow Shield", "Sword of Ruin"}

\* detectGenFromFormat(): the number after a leading 'gen', else null
detectGenFromFormat(f) ==
  CASE f = "gen1ou" -> 1
    [] f = "gen2ou" -> 2
    [] f = "gen9ou" -> 9
    [] f = "gen9customgame" -> 9
    [] OTHER -> NullNum

\* getGenDexForFormat(): the global Dex for the format's gen, null without one
getGenDexForFormat(f, loaded) ==
  IF loaded /\ detectGenFromFormat(f) # NullNum /\ detectGenFromFormat(f) >= 1
  THEN "dex" ELSE NULL

\* detectLegacyGen(): gens 1 and 2
detectLegacyGen(gen) == gen # NullNum /\ gen >= 1 /\ gen <= 2

\* calcPokemonHpPercentage(): hp / maxhp as <<numerator, denominator>>
calcPokemonHpPercentage(p) == <<OrNum(p.hp, 0), OrNum(p.maxhp, 1)>>

\* nonEmptyObject(pokemon.moveOverrides?.[moveName])
HasMoveOverrides(p, mv) == mv \in p.moveOverrides


(***************************************************************************)
(* createSmogonPokemon(), lines 27-321.                                    *)
(***************************************************************************)
\* gen < 1, where a null gen converts to 0
GenBelow1(gen) == gen = NullNum \/ gen < 1

\* the check of line 37 without its dex test
MissingIdentityNoDex(dex, gen, p) ==
  \/ GenBelow1(gen)
  \/ p = NoPokemon
  \/ ~TruthyStr(p.calcdexId)
  \/ ~TruthyStr(p.speciesForme)

\* line 37: !dex || gen < 1 || !pokemon?.calcdexId || !pokemon.speciesForme
MissingIdentity(dex, gen, p) ==
  \/ dex = NULL
  \/ GenBelow1(gen)
  \/ p = NoPokemon
  \/ ~TruthyStr(p.calcdexId)
  \/ ~TruthyStr(p.speciesForme)

\* line 47: (gen > 1 && (pokemon.dirtyItem ?? pokemon.item)) || null
ResolveItem(gen, p) ==
  IF gen > 1 /\ TruthyStr(CoalesceStr(p.dirtyItem, p.item))
  THEN CoalesceStr(p.dirtyItem, p.item) ELSE NULL

\* lines 70-76 without the 'ok' case
ResolveStatusOkAsIs(p) ==
  IF TruthyStr(p.dirtyStatus) /\ p.dirtyStatus # "???"
  THEN p.dirtyStatus
  ELSE (IF p.status = "???" THEN NULL ELSE p.status)

\* lines 70-76
ResolveStatus(p) ==
  IF TruthyStr(p.dirtyStatus) /\ p.dirtyStatus # "???"
  THEN (IF p.dirtyStatus = "ok" THEN NULL ELSE p.dirtyStatus)
  ELSE (IF p.status = "???" THEN NULL ELSE p.status)

\* line 78 without its !legacy operand
ResolveAbilityAnyGen(legacy, p) ==
  IF TruthyStr(CoalesceStr(p.dirtyAbility, p.ability))
  THEN CoalesceStr(p.dirtyAbility, p.ability) ELSE NULL

\* line 78: (!legacy && (pokemon.dirtyAbility ?? pokemon.ability)) || null
ResolveAbility(legacy, p) ==
  IF ~legacy /\ TruthyStr(CoalesceStr(p.dirtyAbility, p.ability))
  THEN CoalesceStr(p.dirtyAbility, p.ability) ELSE NULL

\* line 81: field?.gameType === 'Doubles'
IsDoubles(fld) == fld # NoField /\ fld.gameType = "Doubles"

\* lines 86-90
PseudoToggleAbility(abilityId, doubles) ==
  /\ abilityId # ""
  /\ abilityId \in {formatId(a) :
        a \in {b \in PokemonToggleAbilities :
                 ~(EndsWithOfRuin(formatId(b)) /\ ~doubles)}}

\* the toggle of lines 92-94 without abilityToggleable
PseudoToggledUnchecked(pseudoToggleAbility, p) ==
  pseudoToggleAbility /\ p.abilityToggled

\* lines 92-94
PseudoToggled(pseudoToggleAbility, p) ==
  pseudoToggleAbility /\ p.abilityToggleable /\ p.abilityToggled

\* lines 104-105
ShouldMultiscale(pseudoToggled, abilityId) ==
  pseudoToggled /\ abilityId \in {"multiscale", "shadowshield"}

\* lines 108-109: pokemon.spreadStats || { hp: pokemon.maxhp || 100 }
MaxHp(p) ==
  IF p.spreadStats # NoTable THEN p.spreadStats["hp"] ELSE OrNum(p.maxhp, 100)

\* lines 103-120 with the server's hp returned as it is
CurHPServerAsIs(p, pseudoToggled, abilityId) ==
  LET hpPercentage == calcPokemonHpPercentage(p)
      fraction == IF (ShouldMultiscale(pseudoToggled, abilityId) /\ ~TruthyNum(p.hp))
                       \/ hpPercentage[1] = 0
                  THEN <<1, 1>> ELSE hpPercentage
  IN IF p.serverSourced THEN p.hp
     ELSE (fraction[1] * MaxHp(p)) \div fraction[2]

\* lines 103-120 with Math.ceil for Math.floor
CurHPCeil(p, pseudoToggled, abilityId) ==
  LET shouldMultiscale == ShouldMultiscale(pseudoToggled, abilityId)
      hpPercentage == calcPokemonHpPercentage(p)
      fraction == IF (shouldMultiscale /\ ~TruthyNum(p.hp)) \/ hpPercentage[1] = 0
                  THEN <<1, 1>> ELSE hpPercentage
  IN IF p.serverSourced
     THEN (IF shouldMultiscale /\ ~TruthyNum(p.hp) THEN MaxHp(p) ELSE p.hp)
     ELSE (fraction[1] * MaxHp(p) + fraction[2] - 1) \div fraction[2]

\* lines 103-120
CurHP(p, pseudoToggled, abilityId) ==
  LET shouldMultiscale == ShouldMultiscale(pseudoToggled, abilityId)
      maxHp == MaxHp(p)
      hpPercentage == calcPokemonHpPercentage(p)
      fraction == IF (shouldMultiscale /\ ~TruthyNum(p.hp)) \/ hpPercentage[1] = 0
                  THEN <<1, 1>> ELSE hpPercentage
  IN IF p.serverSourced
     THEN (IF shouldMultiscale /\ ~TruthyNum(p.hp) THEN maxHp ELSE p.hp)
     ELSE (fraction[1] * maxHp) \div fraction[2]

\* lines 131-134
AlliesFainted(p, mv) ==
  IF ~TruthyStr(mv) \/ ~HasMoveOverrides(p, mv)
  THEN CoalesceNum(p.dirtyFaintCounter, OrNum(p.faintCounter, 0))
  ELSE FalseNum

\* line 142
ToggledAbility(pseudoToggleAbility, pseudoToggled, ability) ==
  IF pseudoToggleAbility /\ ~pseudoToggled THEN "Pressure" ELSE ability

\* the spread filled with the non-legacy IV whatever the generation
SpreadOrDefaultIv31(table, default) ==
  [s \in Stats |-> CoalesceNum(table[s], 31)]

\* lines 148-164: pokemon.ivs?.[stat] ?? defaultIv (likewise evs)
SpreadOrDefault(table, default) ==
  [s \in Stats |-> CoalesceNum(table[s], default)]

\* lines 170-176: boosts have no hp slot
ResolveBoosts(p) ==
  [s \in Stats \ {"hp"} |->
     CoalesceNum(p.dirtyBoosts[s], CoalesceNum(p.boosts[s], 0))]

\* lines 180-193: the base stats, then every non-negative number of dirtyBaseStats
ResolveBaseStats(p) ==
  [s \in Stats |->
     IF p.dirtyBaseStats[s] # NullNum /\ p.dirtyBaseStats[s] >= 0
     THEN p.dirtyBaseStats[s] ELSE p.baseStats[s]]

\* lines 200-204 without dirtyTypes
ResolveTypesBase(p) == SubSeq(p.types \o <<NULL, NULL>>, 1, 2)

\* lines 200-204
ResolveTypes(p) ==
  SubSeq((IF Len(p.dirtyTypes) > 0 THEN p.dirtyTypes ELSE p.types)
           \o <<NULL, NULL>>, 1, 2)

\* lines 96-206: the options literal
BuildOptions(gen, legacy, p, mv, fld) ==
  LET ability == ResolveAbility(legacy, p)
      abilityId == formatId(ability)
      pseudoToggleAbility == PseudoToggleAbility(abilityId, IsDoubles(fld))
      pseudoToggled == PseudoToggled(pseudoToggleAbility, p)
  IN [ curHP |-> CurHP(p, pseudoToggled, abilityId),
       status |-> ResolveStatus(p),
       alliesFainted |-> AlliesFainted(p, mv),
       isSaltCure |-> "saltcure" \in p.volatiles,
       ability |-> ToggledAbility(pseudoToggleAbility, pseudoToggled, ability),
       abilityOn |-> pseudoToggled,
       item |-> ResolveItem(gen, p),
       nature |-> IF legacy THEN NULL ELSE p.nature,
       moves |-> p.moves,
       ivs |-> SpreadOrDefault(p.ivs, IF legacy THEN 30 ELSE 31),
       evs |-> SpreadOrDefault(p.evs, IF legacy THEN 252 ELSE 0),
       boosts |-> ResolveBoosts(p),
       baseStats |-> ResolveBaseStats(p),
       types |-> ResolveTypes(p) ]

\* a step of the function body that ran: the options it left, and its name
Ran(w, name, options) == [options |-> options, ran |-> Append(w.ran, name)]

\* lines 210-212
LegacyIvs(legacy, w) ==
  IF legacy
  THEN Ran(w, "legacy", [w.options EXCEPT !.ivs["spd"] = w.options.ivs["spa"]])
  ELSE w

\* lines 216-223
Gen1Special(gen, w) ==
  IF gen = 1
  THEN Ran(w, "gen1",
           [w.options EXCEPT !.evs["spd"] = w.options.evs["spa"],
                             !.boosts["spd"] = w.options.boosts["spa"],
                             !.baseStats["spd"] = w.options.baseStats["spa"]])
  ELSE w

\* lines 267-269
ProteanLibero(abilityId, p, w) ==
  IF abilityId \in {"protean", "libero"} /\ ~p.abilityToggled
  THEN Ran(w, "protean", [w.options EXCEPT !.ability = "Pressure"])
  ELSE w

\* lines 273-275
IntrepidDownload(abilityId, w) ==
  IF abilityId \in {"intrepidsword", "download"}
  THEN Ran(w, "intrepid", [w.options EXCEPT !.ability = "Pressure"])
  ELSE w

\* line 280: formatId(opponentPokemon.dirtyAbility || opponentPokemon.ability)
OpponentAbilityId(opp) == formatId(OrStr(opp.dirtyAbility, opp.ability))

\* the cancellation of lines 279-285 without the test that the two ids are equal
RuinCancelAnyRuin(legacy, abilityId, opp, w) ==
  IF /\ ~legacy
     /\ EndsWithOfRuin(abilityId)
     /\ opp # NoPokemon
     /\ TruthyStr(opp.speciesForme)
     /\ EndsWithOfRuin(OpponentAbilityId(opp))
  THEN Ran(w, "ruin", [w.options EXCEPT !.ability = "Pressure"])
  ELSE w

\* lines 279-285
RuinCancel(legacy, abilityId, opp, w) ==
  IF /\ ~legacy
     /\ EndsWithOfRuin(abilityId)
     /\ opp # NoPokemon
     /\ TruthyStr(opp.speciesForme)
     /\ EndsWithOfRuin(OpponentAbilityId(opp))
     /\ OpponentAbilityId(opp) = abilityId
  THEN Ran(w, "ruin", [w.options EXCEPT !.ability = "Pressure"])
  ELSE w

\* the substitution of lines 295-298 without its hp line
TransformedWholeLine(p, w) ==
  IF TruthyStr(p.transformedForme)
  THEN Ran(w, "transformed", [w.options EXCEPT !.baseStats = p.transformedBaseStats])
  ELSE w

\* lines 289-299
Transformed(p, w) ==
  IF TruthyStr(p.transformedForme)
  THEN Ran(w, "transformed",
           [w.options EXCEPT !.baseStats =
              [p.transformedBaseStats EXCEPT !["hp"] = p.baseStats["hp"]]])
  ELSE w

\* lines 306-307 without the destructuring of line 303: def is read after atk is set
PowerTrickInPlace(p, w) ==
  IF "powertrick" \in p.volatiles
  THEN Ran(w, "powertrick",
           [w.options EXCEPT !.baseStats["atk"] = w.options.baseStats["def"]])
  ELSE w

\* lines 303-308
PowerTrick(p, w) ==
  IF "powertrick" \in p.volatiles
  THEN Ran(w, "powertrick",
           [w.options EXCEPT !.baseStats["atk"] = w.options.baseStats["def"],
                             !.baseStats["def"] = w.options.baseStats["atk"]])
  ELSE w

\* what a call returns: null, or the SmogonPokemon built from the options
ReturnNull(ran) == [kind |-> "null", ran |-> ran]
Threw(ran) == [kind |-> "threw", ran |-> ran]
NewSmogonPokemon(dex, speciesForme, w) ==
  [kind |-> "pokemon", dex |-> dex, speciesForme |-> speciesForme,
   options |-> w.options, ran |-> Append(w.ran, "construct")]

\* lines 27-321
createSmogonPokemon(f, loaded, p, mv, opp, fld) ==
  LET dex == getGenDexForFormat(f, loaded)
      gen == detectGenFromFormat(f)
      legacy == detectLegacyGen(gen)
      abilityId == formatId(ResolveAbility(legacy, p))
      w0 == [options |-> BuildOptions(gen, legacy, p, mv, fld),
             ran |-> <<"item", "options">>]
      w1 == LegacyIvs(legacy, w0)
      w2 == Gen1Special(gen, w1)
      w3 == ProteanLibero(abilityId, p, w2)
      w4 == IntrepidDownload(abilityId, w3)
      w5 == RuinCancel(legacy, abilityId, opp, w4)
      w6 == Transformed(p, w5)
      w7 == PowerTrick(p, w6)
  IN IF MissingIdentity(dex, gen, p) THEN ReturnNull(<<>>)
     \* line 47 reads pokemon.dirtyItem: a TypeError on an absent pokemon
     ELSE IF p = NoPokemon THEN Threw(<<>>)
     \* lines 50-62
     ELSE IF ~TruthyStr(p.speciesForme) THEN ReturnNull(<<"item">>)
     ELSE NewSmogonPokemon(dex, p.speciesForme, w7)


\* the option values of lines 146-206 with the base stats handed over as they are
SharedBaseStats == {"moves", "baseStats"}

\* lines 146-206: the option values that are the combatant's own objects.  moves
\* is pokemon.moves itself (line 146); ivs, evs, boosts, overrides.baseStats and
\* overrides.types are object and array literals built in the call
SharedWithPokemon == {"moves"}

\* The combatant after the call.  Lines 210-223 and 303-308 assign to slots of
\* the option tables: an assignment to a table the combatant shares is an
\* assignment to the combatant.  Line 295 binds baseStats to a new object, so
\* the later assignments of lines 306-307 stay in the call.
PokemonAfter(f, loaded, p, mv, opp, fld) ==
  LET r == createSmogonPokemon(f, loaded, p, mv, opp, fld)
      gen == detectGenFromFormat(f)
      legacy == detectLegacyGen(gen)
      w0 == [options |-> BuildOptions(gen, legacy, p, mv, fld), ran |-> <<>>]
      special == Gen1Special(gen, LegacyIvs(legacy, w0)).options
      written == IF TruthyStr(p.transformedForme) THEN special ELSE r.options
      Through(name, table) ==
        IF name \in SharedWithPokemon
        THEN [s \in DOMAIN table |->
                IF s \in DOMAIN written[name] THEN written[name][s] ELSE table[s]]
        ELSE table
  IN IF r.kind # "pokemon" THEN p
     ELSE [p EXCEPT !.ivs = Through("ivs", @),
                    !.evs = Through("evs", @),
                    !.boosts = Through("boosts", @),
                    !.baseStats = Through("baseStats", @),
                    !.moves = Through("moves", @)]

(***************************************************************************)
(* The store snapshots the adapter is called on.  Every field has a        *)
(* default; each family below varies the fields one part of the function   *)
(* reads, over every generation that part distinguishes.                   *)
(***************************************************************************)
MaxHP == 3
MaxFaint == 2
MaxDirtyStat == 1
MaxBoost == 1

GenFormats == {"gen1ou", "gen2ou", "gen9ou"}
AllFormats == GenFormats \cup {NULL, "ou"}
Singles == [gameType |-> "Singles"]
Doubles == [gameType |-> "Doubles"]

BasePokemon ==
  [ calcdexId |-> "id-1", speciesForme |-> "Greninja", transformedForme |-> NULL,
    serverSourced |-> FALSE, hp |-> MaxHP, maxhp |-> MaxHP, spreadStats |-> NoTable,
    item |-> NULL, dirtyItem |-> NULL, prevItem |-> NULL,
    ability |-> "Static", dirtyAbility |-> NULL,
    abilityToggleable |-> FALSE, abilityToggled |-> FALSE,
    status |-> "", dirtyStatus |-> NULL,
    nature |-> "Hardy", moves |-> <<"Tackle">>, moveOverrides |-> {},
    faintCounter |-> 0, dirtyFaintCounter |-> NullNum,
    ivs |-> NoTable, evs |-> NoTable,
    boosts |-> NoTable, dirtyBoosts |-> NoTable,
    baseStats |-> Table(10, 1, 2, 3, 4, 5), dirtyBaseStats |-> NoTable,
    transformedBaseStats |-> NoTable,
    types |-> <<"Water", "Dark">>, dirtyTypes |-> <<>>,
    volatiles |-> {} ]

BaseOpponent ==
  [BasePokemon EXCEPT !.calcdexId = "id-2", !.speciesForme = "Chien-Pao"]

Snapshot(f, loaded, p, opp, fld, mv) ==
  [format |-> f, dexLoaded |-> loaded, pokemon |-> p, opponentPokemon |-> opp,
   field |-> fld, moveName |-> mv]

\* abilities, their overrides and toggles on both sides, singles and doubles
AbilityFamily ==
  { Snapshot(f, TRUE,
             [BasePokemon EXCEPT !.ability = a, !.dirtyAbility = d,
                                 !.abilityToggleable = t, !.abilityToggled = g],
             opp, fld, NULL) :
      f \in {"gen2ou", "gen9ou"},
      a \in {NULL, "Static", "Multiscale", "Sword of Ruin", "Beads of Ruin",
             "Intrepid Sword"},
      d \in {NULL, "", "Sword of Ruin", "Beads of Ruin"},
      t \in BOOLEAN, g \in BOOLEAN,
      opp \in { [BaseOpponent EXCEPT !.ability = oa, !.dirtyAbility = od,
                                     !.abilityToggleable = og, !.abilityToggled = og] :
                  oa \in {"Static", "Sword of Ruin", "Beads of Ruin"},
                  od \in {NULL, "", "Sword of Ruin"},
                  og \in BOOLEAN }
              \cup {NoPokemon,
                    [BaseOpponent EXCEPT !.ability = "Sword of Ruin",
                                         !.speciesForme = NULL]},
      fld \in {Singles, Doubles} }

\* self-type-change abilities, the type override and the 'typechange' volatile
TypeFamily ==
  { Snapshot(f, TRUE,
             [BasePokemon EXCEPT !.ability = a, !.dirtyAbility = d,
                                 !.abilityToggleable = t, !.abilityToggled = g,
                                 !.volatiles = v, !.types = ty, !.dirtyTypes = dt],
             BaseOpponent, Singles, NULL) :
      f \in GenFormats,
      a \in {"Static", "Protean", "Libero"},
      d \in {NULL, "Protean"},
      t \in BOOLEAN, g \in BOOLEAN,
      v \in {{}, {"typechange"}},
      ty \in {<<"Water">>, <<"Water", "Dark">>},
      dt \in {<<>>, <<"Poison">>, <<"Fire", "Flying", "Ghost">>} }

DirtyBaseStatsSet ==
  {NoTable} \cup
  { [NoTable EXCEPT ![s] = v] :
      s \in {"hp", "atk", "spa", "spd"}, v \in (0 - 1)..MaxDirtyStat }

\* base stats, their overrides, Transform and Power Trick
BaseStatsFamily ==
  { Snapshot(f, TRUE,
             [BasePokemon EXCEPT !.dirtyBaseStats = dbs,
                                 !.transformedForme = tf[1],
                                 !.transformedBaseStats = tf[2],
                                 !.volatiles = v],
             BaseOpponent, Singles, NULL) :
      f \in GenFormats,
      dbs \in DirtyBaseStatsSet,
      tf \in {<<NULL, NoTable>>,
              <<"Mew", Table(20, 6, 7, 8, 8, 11)>>,
              <<"Mew", Table(20, 6, 7, 8, 9, 11)>>},
      v \in {{}, {"powertrick"}, {"saltcure"}} }

BoostsSet ==
  {NoTable} \cup
  { [NoTable EXCEPT !["spa"] = a, !["spd"] = b] :
      a \in {NullNum, MaxBoost}, b \in {0, 0 - MaxBoost} }

\* IVs, EVs, boosts and their overrides
SpreadFamily ==
  { Snapshot(f, TRUE,
             [BasePokemon EXCEPT !.ivs = iv, !.evs = ev,
                                 !.boosts = b, !.dirtyBoosts = db],
             BaseOpponent, Singles, NULL) :
      f \in GenFormats,
      iv \in {NoTable, Table(31, 0, 31, 30, 29, 31)},
      ev \in {NoTable, Table(252, 0, 4, 8, 12, 252)},
      b \in BoostsSet, db \in BoostsSet }

\* current HP: server-sourced or not, the Multiscale class and its toggle
HpFamily ==
  { Snapshot(f, TRUE,
             [BasePokemon EXCEPT !.serverSourced = ss, !.hp = h[1], !.maxhp = h[2],
                                 !.spreadStats = sp, !.ability = a,
                                 !.abilityToggleable = t, !.abilityToggled = g],
             BaseOpponent, Singles, NULL) :
      f \in {"gen2ou", "gen9ou"},
      ss \in BOOLEAN,
      h \in {<<0, 0>>} \cup {<<x, MaxHP>> : x \in 0..MaxHP},
      sp \in {NoTable, Table(2 * MaxHP + 1, 1, 1, 1, 1, 1)},
      a \in {"Static", "Multiscale", "Shadow Shield"},
      t \in BOOLEAN, g \in BOOLEAN }

\* status, item and their overrides
StatusItemFamily ==
  { Snapshot(f, TRUE,
             [BasePokemon EXCEPT !.status = st, !.dirtyStatus = ds,
                                 !.item = it, !.dirtyItem = di],
             BaseOpponent, Singles, NULL) :
      f \in GenFormats,
      st \in {NULL, "", "brn", "???"},
      ds \in {NULL, "", "ok", "par", "???"},
      it \in {NULL, "Leftovers"},
      di \in {NULL, "", "Choice Band"} }

\* fainted allies, the override and a move with or without overrides
FaintFamily ==
  { Snapshot("gen9ou", TRUE,
             [BasePokemon EXCEPT !.faintCounter = fc, !.dirtyFaintCounter = dfc,
                                 !.moveOverrides = mo],
             BaseOpponent, Singles, mv) :
      fc \in {NullNum} \cup 0..MaxFaint,
      dfc \in {NullNum} \cup 0..MaxFaint,
      mo \in {{}, {"Tackle"}},
      mv \in {NULL, "Tackle"} }

\* what identifies the matchup: the format, the dex, the combatant
IdentityFamily ==
  { Snapshot(f, loaded, p, opp, fld, mv) :
      f \in AllFormats, loaded \in BOOLEAN,
      p \in {NoPokemon, BasePokemon,
             [BasePokemon EXCEPT !.calcdexId = NULL],
             [BasePokemon EXCEPT !.speciesForme = NULL],
             [BasePokemon EXCEPT !.speciesForme = ""]},
      opp \in {NoPokemon, BaseOpponent},
      fld \in {NoField, Singles, Doubles},
      mv \in {NULL, "Tackle"} }

Snapshots ==
  AbilityFamily \cup TypeFamily \cup BaseStatsFamily \cup SpreadFamily
    \cup HpFamily \cup StatusItemFamily \cup FaintFamily \cup IdentityFamily

Pending == [kind |-> "pending", ran |-> <<>>]
\* no call made
Idle == [kind |-> "idle"]

Init ==
  \E s \in Snapshots :
    /\ format = s.format
    /\ dexLoaded = s.dexLoaded
    /\ pokemon = s.pokemon
    /\ opponentPokemon = s.opponentPokemon
    /\ field = s.field
    /\ moveName = s.moveName
    /\ smogonPokemon = Pending
    /\ smogonOpponent = Pending
    /\ preset = NoPreset
    /\ applied = Idle
    /\ encoder = NULL
    /\ value = JsNull
    /\ other = JsNull
    /\ dehydrated = Idle
    /\ moveOptions = Idle

\* createSmogonPokemon(format, pokemon, moveName, opponentPokemon, field)
CreatePlayerPokemon ==
  /\ smogonPokemon = Pending
  /\ smogonPokemon' = createSmogonPokemon(format, dexLoaded, pokemon, moveName,
                                          opponentPokemon, field)
  /\ pokemon' = PokemonAfter(format, dexLoaded, pokemon, moveName,
                             opponentPokemon, field)
  /\ UNCHANGED <<format, dexLoaded, opponentPokemon, field, moveName,
                 smogonOpponent, presetVars, hydroVars, moveVars>>

\* createSmogonPokemon(format, opponentPokemon, moveName, pokemon, field)
CreateOpponentPokemon ==
  /\ smogonOpponent = Pending
  /\ smogonOpponent' = createSmogonPokemon(format, dexLoaded, opponentPokemon,
                                           moveName, pokemon, field)
  /\ opponentPokemon' = PokemonAfter(format, dexLoaded, opponentPokemon,
                                     moveName, pokemon, field)
  /\ UNCHANGED <<format, dexLoaded, pokemon, field, moveName,
                 smogonPokemon, presetVars, hydroVars, moveVars>>

Next == CreatePlayerPokemon \/ CreateOpponentPokemon

Spec == Init /\ [][Next]_vars


(***************************************************************************)
(* Properties of the adapter.  A call is a combatant, its opponent and     *)
(* what the adapter returned for it.                                       *)
(***************************************************************************)
Calls ==
  { [p |-> pokemon, opp |-> opponentPokemon, r |-> smogonPokemon],
    [p |-> opponentPokemon, opp |-> pokemon, r |-> smogonOpponent] }

Gen == detectGenFromFormat(format)
Legacy == Gen \in {1, 2}
Built(c) == c.r.kind = "pokemon"

\* the ability a combatant resolves to: the override over the base, none in legacy gens
Resolved(p) ==
  IF Legacy THEN NULL
  ELSE IF p.dirtyAbility # NULL
       THEN (IF p.dirtyAbility = "" THEN NULL ELSE p.dirtyAbility)
       ELSE (IF p.ability = "" THEN NULL ELSE p.ability)

RuinAbilities == {"Sword of Ruin", "Beads of Ruin"}
Pad2(t) == IF Len(t) = 0 THEN <<NULL, NULL>>
           ELSE IF Len(t) = 1 THEN <<t[1], NULL>> ELSE <<t[1], t[2]>>

\* C1: whenever the format yields no dex or a generation below 1, or the
\* combatant is absent or has no speciesForme, the call returns null, does not
\* throw, and runs no step after the identity check, whatever the move, the
\* opponent and the field are.
C1_NullWithoutIdentity ==
  \A c \in Calls :
    ( /\ c.r # Pending
      /\ \/ ~dexLoaded
         \/ format \notin GenFormats
         \/ c.p = NoPokemon
         \/ c.p.speciesForme \in {NULL, ""} )
    => (c.r.kind = "null" /\ c.r.ran = <<>>)

C1_Witness ==
  /\ smogonPokemon.kind = "null"
  /\ dexLoaded /\ format = "gen9ou"
  /\ pokemon # NoPokemon /\ pokemon.speciesForme = NULL
  /\ pokemon.calcdexId # NULL
  /\ opponentPokemon # NoPokemon /\ moveName = "Tackle" /\ field = Doubles

\* C2: for every overridable field the adapter reads, an override that is
\* present and non-null decides the value sent to the engine: the item (gens
\* 2+), the ability (non-legacy; possibly replaced by the placeholder), the
\* status, each boost, each base stat (where Power Trick put it), the types and
\* the faint counter.  An override the code treats as unset ('???', a negative
\* base stat, an empty type list) and the gen-1 spd slots are left out.
C2_OverrideTakesPrecedence ==
  \A c \in Calls :
    Built(c) =>
      LET p == c.p
          o == c.r.options
          slot(s) == IF "powertrick" \in p.volatiles
                     THEN (CASE s = "atk" -> "def" [] s = "def" -> "atk" [] OTHER -> s)
                     ELSE s
      IN /\ (Gen > 1 /\ p.dirtyItem # NULL)
              => o.item = (IF p.dirtyItem = "" THEN NULL ELSE p.dirtyItem)
         /\ (~Legacy /\ p.dirtyAbility # NULL)
              => o.ability \in {IF p.dirtyAbility = "" THEN NULL ELSE p.dirtyAbility,
                                "Pressure"}
         /\ p.dirtyStatus \notin {NULL, "", "???"}
              => o.status = (IF p.dirtyStatus = "ok" THEN NULL ELSE p.dirtyStatus)
         /\ \A s \in Stats \ {"hp"} :
              (p.dirtyBoosts[s] # NullNum /\ ~(Gen = 1 /\ s = "spd"))
                => o.boosts[s] = p.dirtyBoosts[s]
         /\ \A s \in Stats :
              (p.dirtyBaseStats[s] # NullNum /\ p.dirtyBaseStats[s] >= 0
                 /\ ~(Gen = 1 /\ s = "spd"))
                => o.baseStats[slot(s)] = p.dirtyBaseStats[s]
         /\ Len(p.dirtyTypes) > 0 => o.types = Pad2(p.dirtyTypes)
         /\ (p.dirtyFaintCounter # NullNum /\ o.alliesFainted # FalseNum)
              => o.alliesFainted = p.dirtyFaintCounter

\* C3 (as stated): for a transformed combatant the base stats sent have the
\* original hp and the transformed forme's atk, def, spa, spd and spe, whatever
\* the volatiles, overrides or generation.
C3_TransformedBaseStatsAsStated ==
  \A c \in Calls :
    (Built(c) /\ c.p.transformedForme # NULL)
    => /\ c.r.options.baseStats["hp"] = c.p.baseStats["hp"]
       /\ \A s \in Stats \ {"hp"} :
            c.r.options.baseStats[s] = c.p.transformedBaseStats[s]

\* C3 (amended): for a transformed combatant the base stats sent have the
\* original hp and the transformed forme's spa, spd and spe, whatever the
\* overrides or generation; atk and def are the transformed forme's, exchanged
\* when the 'powertrick' volatile is present.
C3_TransformedBaseStats ==
  \A c \in Calls :
    (Built(c) /\ c.p.transformedForme # NULL)
    => LET b == c.r.options.baseStats
           t == c.p.transformedBaseStats
       IN /\ b["hp"] = c.p.baseStats["hp"]
          /\ \A s \in {"spa", "spd", "spe"} : b[s] = t[s]
          /\ IF "powertrick" \in c.p.volatiles
             THEN b["atk"] = t["def"] /\ b["def"] = t["atk"]
             ELSE b["atk"] = t["atk"] /\ b["def"] = t["def"]

C3_Witness ==
  /\ Built([r |-> smogonPokemon])
  /\ pokemon.transformedForme = "Mew"
  /\ "powertrick" \in pokemon.volatiles
  /\ pokemon.dirtyBaseStats["hp"] = 1
  /\ Gen = 1
  /\ smogonPokemon.options.baseStats = Table(10, 7, 6, 8, 9, 11)

\* C4: at generation 1 the options sent have ivs.spd = ivs.spa, evs.spd =
\* evs.spa, boosts.spd = boosts.spa and baseStats.spd = baseStats.spa, for
\* transformed combatants and dirty base stats too, even when the inputs disagree.
C4_Gen1SpecialCoupling ==
  \A c \in Calls :
    (Built(c) /\ Gen = 1)
    => LET o == c.r.options
       IN /\ o.ivs["spd"] = o.ivs["spa"]
          /\ o.evs["spd"] = o.evs["spa"]
          /\ o.boosts["spd"] = o.boosts["spa"]
          /\ o.baseStats["spd"] = o.baseStats["spa"]


BothRuin ==
  /\ Built([r |-> smogonPokemon]) /\ Built([r |-> smogonOpponent])
  /\ ~Legacy
  /\ Resolved(pokemon) \in RuinAbilities
  /\ Resolved(opponentPokemon) \in RuinAbilities

\* C5 (as stated): when both combatants of a non-legacy matchup resolve to Ruin
\* abilities, identical abilities are replaced by 'Pressure' on both sides and
\* different ones are kept on both sides, in Singles and Doubles and for either
\* toggle state.
C5_RuinCancellationAsStated ==
  BothRuin =>
    IF Resolved(pokemon) = Resolved(opponentPokemon)
    THEN /\ smogonPokemon.options.ability = "Pressure"
         /\ smogonOpponent.options.ability = "Pressure"
    ELSE /\ smogonPokemon.options.ability = Resolved(pokemon)
         /\ smogonOpponent.options.ability = Resolved(opponentPokemon)

\* the toggle state of a combatant: toggleable and toggled
ToggledOn(p) == p.abilityToggleable /\ p.abilityToggled

\* C5 (amended): when both combatants of a non-legacy matchup resolve to Ruin
\* abilities, identical abilities are replaced by 'Pressure' on both sides, in
\* Singles and Doubles and for either toggle state; different ones are kept on a
\* side unless the game is Doubles and that side's ability is toggled off, where
\* that side carries 'Pressure'.
C5_RuinCancellation ==
  BothRuin =>
    IF Resolved(pokemon) = Resolved(opponentPokemon)
    THEN /\ smogonPokemon.options.ability = "Pressure"
         /\ smogonOpponent.options.ability = "Pressure"
    ELSE /\ smogonPokemon.options.ability =
              (IF field = Doubles /\ ~ToggledOn(pokemon)
               THEN "Pressure" ELSE Resolved(pokemon))
         /\ smogonOpponent.options.ability =
              (IF field = Doubles /\ ~ToggledOn(opponentPokemon)
               THEN "Pressure" ELSE Resolved(opponentPokemon))

C5_Witness ==
  /\ BothRuin
  /\ Resolved(pokemon) = "Sword of Ruin"
  /\ pokemon.dirtyAbility = "Sword of Ruin" /\ pokemon.ability = "Beads of Ruin"
  /\ Resolved(opponentPokemon) = "Sword of Ruin"
  /\ field = Doubles /\ ToggledOn(pokemon)
  /\ smogonPokemon.options.ability = "Pressure"
  /\ smogonOpponent.options.ability = "Pressure"

\* an ability whose effect can be switched: in PokemonToggleAbilities, a Ruin
\* ability only in Doubles
Switchable(ability) ==
  /\ ability \in PokemonToggleAbilities
  /\ ability \in RuinAbilities => field = Doubles

\* C6: when the resolved ability is pseudo-toggleable and toggled off the
\* adapter sends 'Pressure' in its place; abilityOn is true exactly when the
\* ability is pseudo-toggleable, abilityToggleable is set and abilityToggled is set.
C6_PseudoToggle ==
  \A c \in Calls :
    Built(c) =>
      LET on == Switchable(Resolved(c.p)) /\ ToggledOn(c.p)
      IN /\ (Switchable(Resolved(c.p)) /\ ~on) => c.r.options.ability = "Pressure"
         /\ c.r.options.abilityOn = on

C6_Witness ==
  /\ Built([r |-> smogonPokemon])
  /\ Resolved(pokemon) = "Multiscale"
  /\ pokemon.abilityToggled /\ ~pokemon.abilityToggleable
  /\ smogonPokemon.options.ability = "Pressure"
  /\ smogonPokemon.options.abilityOn = FALSE

\* the max HP: spreadStats.hp, else maxhp, else 100
MaxHpOf(p) ==
  IF p.spreadStats # NoTable THEN p.spreadStats["hp"]
  ELSE IF p.maxhp # 0 THEN p.maxhp ELSE 100

\* C7: for a server-sourced combatant curHP is the reported hp, except that with
\* a resolved ability of Multiscale or Shadow Shield that is toggled on and a
\* reported hp of 0 it is the max HP; at 0 HP without that toggled ability it is 0.
C7_ServerSourcedHp ==
  \A c \in Calls :
    (Built(c) /\ c.p.serverSourced)
    => c.r.options.curHP =
         (IF /\ Resolved(c.p) \in {"Multiscale", "Shadow Shield"}
             /\ c.r.options.abilityOn
             /\ c.p.hp = 0
          THEN MaxHpOf(c.p) ELSE c.p.hp)

C7_Witness ==
  /\ Built([r |-> smogonPokemon])
  /\ pokemon.serverSourced /\ pokemon.hp = 0
  /\ Resolved(pokemon) = "Shadow Shield" /\ smogonPokemon.options.abilityOn
  /\ pokemon.spreadStats # NoTable
  /\ smogonPokemon.options.curHP = 2 * MaxHP + 1

\* C8 (as stated): for a combatant that is not server-sourced curHP is
\* floor(fraction * maxHp), with the fraction of calcPokemonHpPercentage.
C8_EstimatedHpAsStated ==
  \A c \in Calls :
    (Built(c) /\ ~c.p.serverSourced)
    => LET fraction == calcPokemonHpPercentage(c.p)
       IN c.r.options.curHP = (fraction[1] * MaxHpOf(c.p)) \div fraction[2]

\* C8 (amended): for a combatant that is not server-sourced curHP is
\* floor(fraction * maxHp), except that a fraction of 0 (a fainted combatant)
\* yields maxHp; curHP never exceeds maxHp and a partially damaged combatant
\* yields a curHP strictly below maxHp.
C8_EstimatedHp ==
  \A c \in Calls :
    (Built(c) /\ ~c.p.serverSourced)
    => LET fraction == calcPokemonHpPercentage(c.p)
           maxHp == MaxHpOf(c.p)
           curHP == c.r.options.curHP
       IN /\ curHP = (IF fraction[1] = 0 THEN maxHp
                      ELSE (fraction[1] * maxHp) \div fraction[2])
          /\ curHP <= maxHp
          /\ (0 < fraction[1] /\ fraction[1] < fraction[2]) => curHP < maxHp

C8_Witness ==
  /\ Built([r |-> smogonPokemon])
  /\ ~pokemon.serverSourced
  /\ pokemon.hp = 1 /\ pokemon.maxhp = MaxHP
  /\ pokemon.spreadStats # NoTable
  /\ smogonPokemon.options.curHP = (2 * MaxHP + 1) \div MaxHP
  /\ (2 * MaxHP + 1) % MaxHP # 0

DefaultIv == IF Legacy THEN 30 ELSE 31
DefaultEv == IF Legacy THEN 252 ELSE 0
Own(table, s, default) == IF table[s] # NullNum THEN table[s] ELSE default
OwnBoost(p, s) ==
  IF p.dirtyBoosts[s] # NullNum THEN p.dirtyBoosts[s]
  ELSE IF p.boosts[s] # NullNum THEN p.boosts[s] ELSE 0

\* C11 (as stated): in every non-null result each of the six IVs and six EVs
\* sent is the combatant's own value when it has one and the generation default
\* otherwise (IV 31 and EV 0, or IV 30 and EV 252 in legacy gens), each of the
\* five boosts is the override, else the base boost, else 0, and no slot is null.
C11_SpreadDefaultsAsStated ==
  \A c \in Calls :
    Built(c) =>
      LET o == c.r.options
      IN /\ \A s \in Stats :
              /\ o.ivs[s] = Own(c.p.ivs, s, DefaultIv)
              /\ o.evs[s] = Own(c.p.evs, s, DefaultEv)
              /\ o.ivs[s] # NullNum /\ o.evs[s] # NullNum
         /\ \A s \in Stats \ {"hp"} :
              o.boosts[s] = OwnBoost(c.p, s) /\ o.boosts[s] # NullNum

\* C11 (amended): the same for every slot but spd, which follows spa where the
\* generation has one special stat: in legacy gens the spd IV sent is the spa
\* IV sent, and in gen 1 the spd EV and the spd boost sent are the spa ones.
\* No slot is ever null.
C11_SpreadDefaults ==
  \A c \in Calls :
    Built(c) =>
      LET o == c.r.options
          src(s, coupled) == IF coupled /\ s = "spd" THEN "spa" ELSE s
      IN /\ \A s \in Stats :
              /\ o.ivs[s] = Own(c.p.ivs, src(s, Legacy), DefaultIv)
              /\ o.evs[s] = Own(c.p.evs, src(s, Gen = 1), DefaultEv)
              /\ o.ivs[s] # NullNum /\ o.evs[s] # NullNum
         /\ \A s \in Stats \ {"hp"} :
              /\ o.boosts[s] = OwnBoost(c.p, src(s, Gen = 1))
              /\ o.boosts[s] # NullNum

\* a legacy combatant without IVs or EVs, and with a spd boost of its own
C11_Witness ==
  /\ smogonPokemon.kind = "pokemon" /\ Gen = 2
  /\ pokemon.ivs = NoTable /\ pokemon.evs = NoTable
  /\ smogonPokemon.options.ivs["atk"] = 30
  /\ smogonPokemon.options.evs["atk"] = 252
  /\ pokemon.dirtyBoosts = NoTable /\ pokemon.boosts["spd"] = 0 - MaxBoost
  /\ smogonPokemon.options.boosts["spd"] = 0 - MaxBoost

(***************************************************************************)
(* appliedPreset(), lines 622-671 of the same file: whether a preset is    *)
(* the one a combatant currently has applied.  The format is a format      *)
(* name; an IV or EV table holds a number for each key it has (NullNum: no *)
(* such key, so Object.entries() passes over it).                          *)
(***************************************************************************)
\* the check of lines 627-629 without its preset source test
PresetGuardNoSource(f, p, pre) ==
  \/ ~TruthyStr(f)
  \/ p = NoPokemon
  \/ ~TruthyStr(p.speciesForme)
  \/ pre = NoPreset

\* lines 627-629: !format || !pokemon?.speciesForme || !preset?.source
PresetGuard(f, p, pre) ==
  \/ ~TruthyStr(f)
  \/ p = NoPokemon
  \/ ~TruthyStr(p.speciesForme)
  \/ pre = NoPreset
  \/ ~TruthyStr(pre.source)

\* lines 631-637: !gen
NoGen(gen) == gen = NullNum \/ gen = 0

\* the ability read with ?? in place of ||
PokemonAbilityCoalesce(p) == CoalesceStr(p.dirtyAbility, p.ability)

\* line 658: pokemon.dirtyAbility || pokemon.ability
PokemonAbility(p) == OrStr(p.dirtyAbility, p.ability)

\* the item with prevItem read only where the current item is empty
PokemonItemRemovedOnly(p) == CoalesceStr(p.dirtyItem, OrStr(p.item, p.prevItem))

\* line 659: pokemon.dirtyItem ?? (pokemon.prevItem || pokemon.item)
PokemonItem(p) == CoalesceStr(p.dirtyItem, OrStr(p.prevItem, p.item))

\* !!a && !!b && a === b
SameStr(a, b) == TruthyStr(a) /\ TruthyStr(b) /\ a = b

\* the nature test passing on two natures being there
NatureMatchesPresence(legacy, p, pre) ==
  legacy \/ (TruthyStr(p.nature) /\ TruthyStr(pre.nature))

\* line 661
NatureMatches(legacy, p, pre) == legacy \/ SameStr(p.nature, pre.nature)

\* line 662
AbilityMatches(legacy, p, pre) == legacy \/ SameStr(PokemonAbility(p), pre.ability)

\* line 663
ItemMatches(gen, p, pre) == gen < 2 \/ SameStr(PokemonItem(p), pre.item)

Includes(list, x) == \E i \in 1..Len(list) : list[i] = x

\* the move test with the two lists exchanged
MovesMatchReversed(p, pre) ==
  /\ Len(p.moves) > 0
  /\ Len(pre.moves) > 0
  /\ \A i \in 1..Len(p.moves) : Includes(pre.moves, p.moves[i])

\* lines 664-668: presetMoves.every((move) => pokemonMoves.includes(move))
MovesMatch(p, pre) ==
  /\ Len(p.moves) > 0
  /\ Len(pre.moves) > 0
  /\ \A i \in 1..Len(pre.moves) : Includes(p.moves, pre.moves[i])

\* Object.entries(table || {}): the keys the table has
Entries(table) == {s \in Stats : table[s] # NullNum}

\* lines 669-670: (legacy && ['hp', 'spd'].includes(stat))
\*                  || (presetIvs?.[stat] ?? defaultIv) === value
IvsMatch(legacy, p, pre) ==
  LET defaultIv == IF legacy THEN 30 ELSE 31
  IN \A s \in Entries(p.ivs) :
       \/ legacy /\ s \in {"hp", "spd"}
       \/ CoalesceNum(pre.ivs[s], defaultIv) = p.ivs[s]

\* line 671: legacy || every (presetEvs?.[stat] || 0) === value
EvsMatch(legacy, p, pre) ==
  legacy \/ \A s \in Entries(p.evs) : OrNum(pre.evs[s], 0) = p.evs[s]

Returned(b) == [kind |-> "boolean", value |-> b]

\* appliedPreset(format, pokemon, preset)
appliedPreset(f, p, pre) ==
  IF PresetGuard(f, p, pre) THEN Returned(FALSE)
  ELSE LET gen == detectGenFromFormat(f)
           legacy == detectLegacyGen(gen)
       IN IF NoGen(gen) THEN Returned(FALSE)
          ELSE Returned(/\ NatureMatches(legacy, p, pre)
                        /\ AbilityMatches(legacy, p, pre)
                        /\ ItemMatches(gen, p, pre)
                        /\ MovesMatch(p, pre)
                        /\ IvsMatch(legacy, p, pre)
                        /\ EvsMatch(legacy, p, pre))

(***************************************************************************)
(* Calls of appliedPreset().  Each family varies the fields one test of    *)
(* the code reads and keeps the rest on a combatant and a preset that      *)
(* agree.                                                                  *)
(***************************************************************************)
MaxMoves == 2

NullableFormats == AllFormats \cup {""}
MoveNames == {"Tackle", "Surf", "Toxic"}
MoveLists == UNION { [1..n -> MoveNames] : n \in 0..MaxMoves }
All(v) == [s \in Stats |-> v]

PresetPokemon == [BasePokemon EXCEPT !.item = "Leftovers"]
PresetCase(f, p, pre) == [format |-> f, pokemon |-> p, preset |-> pre]

\* a preset copied from what lines 642-659 read off the combatant, the IVs and
\* EVs it lacks filled with the generation's defaults
PresetFrom(f, p) ==
  LET legacy == detectLegacyGen(detectGenFromFormat(f))
  IN [ source |-> "user",
       ability |-> IF TruthyStr(p.dirtyAbility) THEN p.dirtyAbility ELSE p.ability,
       item |-> IF p.dirtyItem # NULL THEN p.dirtyItem
                ELSE IF TruthyStr(p.prevItem) THEN p.prevItem ELSE p.item,
       nature |-> p.nature,
       moves |-> p.moves,
       ivs |-> [s \in Stats |-> IF p.ivs[s] # NullNum THEN p.ivs[s]
                                ELSE IF legacy THEN 30 ELSE 31],
       evs |-> [s \in Stats |-> IF p.evs[s] # NullNum THEN p.evs[s]
                                ELSE IF legacy THEN 252 ELSE 0] ]

\* the preset that agrees with PresetPokemon
BasePreset(f) == PresetFrom(f, PresetPokemon)

NatureAbilityCases ==
  { PresetCase(f, [PresetPokemon EXCEPT !.nature = n, !.ability = a,
                                        !.dirtyAbility = da],
               [BasePreset(f) EXCEPT !.nature = pn, !.ability = pa]) :
      f \in GenFormats, n \in {NULL, "Hardy", "Jolly"},
      a \in {NULL, "Static", "Protean"}, da \in {NULL, "", "Protean"},
      pn \in {NULL, "Hardy"}, pa \in {NULL, "Static", "Protean"} }

ItemCases ==
  { PresetCase(f, [PresetPokemon EXCEPT !.item = i, !.dirtyItem = di,
                                        !.prevItem = pi],
               [BasePreset(f) EXCEPT !.item = pri]) :
      f \in GenFormats, i \in {NULL, "", "Leftovers", "Choice Band"},
      di \in {NULL, "", "Choice Band"}, pi \in {NULL, "Leftovers"},
      pri \in {NULL, "Leftovers", "Choice Band"} }

MoveCases ==
  { PresetCase(f, [PresetPokemon EXCEPT !.moves = m],
               [BasePreset(f) EXCEPT !.moves = pm]) :
      f \in GenFormats, m \in MoveLists, pm \in MoveLists }

IvTables ==
  {NoTable, [NoTable EXCEPT !["atk"] = 0]} \cup
  { [All(d) EXCEPT ![s] = v] : d \in {30, 31}, s \in Stats, v \in {30, 31, 0} }

IvCases ==
  { PresetCase(f, [PresetPokemon EXCEPT !.ivs = iv],
               [BasePreset(f) EXCEPT !.ivs = piv]) :
      f \in GenFormats, iv \in IvTables, piv \in IvTables }

EvTables ==
  {NoTable, All(0), [NoTable EXCEPT !["hp"] = 252]} \cup
  { [All(0) EXCEPT ![s] = 252] : s \in Stats }

EvCases ==
  { PresetCase(f, [PresetPokemon EXCEPT !.evs = ev],
               [BasePreset(f) EXCEPT !.evs = pev]) :
      f \in GenFormats, ev \in EvTables, pev \in EvTables }

GuardCases ==
  { PresetCase(f, p, IF given THEN [BasePreset(f) EXCEPT !.source = src]
                     ELSE NoPreset) :
      f \in NullableFormats,
      p \in {NoPokemon} \cup { [PresetPokemon EXCEPT !.speciesForme = sf] :
                                 sf \in {NULL, "", "Greninja"} },
      given \in BOOLEAN, src \in {NULL, "", "smogon"} }

\* combatants with the preset copied from them
ExactCases ==
  { PresetCase(f, p, PresetFrom(f, p)) :
      f \in GenFormats,
      p \in { [BasePokemon EXCEPT !.item = i, !.prevItem = pi, !.dirtyItem = di,
                                  !.dirtyAbility = da, !.moves = m,
                                  !.ivs = iv, !.evs = ev] :
                i \in {NULL, "Leftovers"}, pi \in {NULL, "Choice Band"},
                di \in {NULL, ""}, da \in {NULL, "", "Protean"},
                m \in {<<>>, <<"Tackle", "Surf">>},
                iv \in {NoTable, Table(31, 0, 31, 30, 29, 31)},
                ev \in {NoTable, Table(252, 0, 4, 8, 12, 252)} } }

PresetCases ==
  NatureAbilityCases \cup ItemCases \cup MoveCases \cup IvCases \cup EvCases
    \cup GuardCases \cup ExactCases

NotApplied == [kind |-> "pending"]

InitPreset ==
  \E c \in PresetCases :
    /\ format = c.format
    /\ pokemon = c.pokemon
    /\ preset = c.preset
    /\ applied = NotApplied
    /\ dexLoaded = TRUE
    /\ opponentPokemon = NoPokemon
    /\ field = NoField
    /\ moveName = NULL
    /\ smogonPokemon = Idle
    /\ smogonOpponent = Idle
    /\ encoder = NULL
    /\ value = JsNull
    /\ other = JsNull
    /\ dehydrated = Idle
    /\ moveOptions = Idle

\* appliedPreset(format, pokemon, preset)
AppliedPreset ==
  /\ applied = NotApplied
  /\ applied' = appliedPreset(format, pokemon, preset)
  /\ UNCHANGED <<calcVars, preset, hydroVars, moveVars>>

NextPreset == AppliedPreset

SpecPreset == InitPreset /\ [][NextPreset]_vars

(***************************************************************************)
(* Properties of the preset matcher.                                       *)
(***************************************************************************)
PresetGen == detectGenFromFormat(format)
PresetLegacy == PresetGen \in {1, 2}
Answered == applied.kind = "boolean"
\* a call that passes the identity checks of lines 627-637
Identified ==
  /\ format \in GenFormats
  /\ pokemon # NoPokemon /\ pokemon.speciesForme \notin {NULL, ""}
  /\ preset # NoPreset /\ preset.source \notin {NULL, ""}
PresetFields == {"ability", "item", "nature", "moves", "ivs", "evs"}
\* the preset's compared fields are the combatant's
Copied == \A k \in PresetFields : preset[k] = PresetFrom(format, pokemon)[k]
Has(s) == s \notin {NULL, ""}

\* C12 (as stated): in every generation, for every combatant with a species, a
\* preset with a source whose ability, item, nature, moves, IVs and EVs are
\* copied from the combatant's resolved state is reported as applied, also when
\* the combatant holds no item, has no moves or has a cleared override.
C12_ReflexiveAsStated ==
  (Answered /\ Identified /\ Copied) => applied.value

\* C12 (amended): such a preset is reported as applied provided the combatant
\* has at least one move, resolves to an item in gens 2 and later, and has a
\* nature and resolves to an ability in non-legacy gens.
C12_Reflexive ==
  ( /\ Answered /\ Identified /\ Copied
    /\ Len(pokemon.moves) > 0
    /\ PresetGen >= 2 => Has(preset.item)
    /\ ~PresetLegacy => (Has(pokemon.nature) /\ Has(preset.ability)) )
  => applied.value

\* a consumed item, an emptied ability override and IVs and EVs of its own
C12_Witness ==
  /\ Answered /\ applied.value /\ Identified /\ Copied
  /\ format = "gen9ou"
  /\ pokemon.item = NULL /\ pokemon.prevItem = "Choice Band"
  /\ pokemon.dirtyAbility = ""
  /\ pokemon.ivs = Table(31, 0, 31, 30, 29, 31)
  /\ pokemon.evs = Table(252, 0, 4, 8, 12, 252)

\* the preset's fields ks are the combatant's
Agree(ks) == \A k \in ks : preset[k] = PresetFrom(format, pokemon)[k]
\* the nature, ability and item the generation compares are there
Comparable ==
  /\ PresetGen >= 2 => Has(preset.item)
  /\ ~PresetLegacy => (Has(pokemon.nature) /\ Has(preset.ability))
MoveSet(list) == {list[i] : i \in 1..Len(list)}

\* C13: with every other compared field equal, the preset matches exactly when
\* both move lists are non-empty and every move of the preset is one of the
\* combatant's: further moves of the combatant never break the match, a preset
\* move the combatant lacks always does, and the order of the moves is
\* irrelevant.
C13_MovesDirectional ==
  (Answered /\ Identified /\ Agree(PresetFields \ {"moves"}) /\ Comparable)
  => ( applied.value <=>
         /\ pokemon.moves # <<>>
         /\ preset.moves # <<>>
         /\ MoveSet(preset.moves) \subseteq MoveSet(pokemon.moves) )

\* the combatant knows a move more than the preset, which names its second move
C13_Witness ==
  /\ Answered /\ applied.value /\ Identified
  /\ Agree(PresetFields \ {"moves"}) /\ Comparable
  /\ pokemon.moves = <<"Surf", "Tackle">>
  /\ preset.moves = <<"Tackle">>

\* the item with the previous item standing in for a removed (empty) one only
ItemUnlessRemoved(p) ==
  IF p.dirtyItem # NULL THEN p.dirtyItem
  ELSE IF Has(p.item) THEN p.item ELSE p.prevItem
\* the item with the previous item standing in whenever there is one
ItemPreferPrev(p) ==
  IF p.dirtyItem # NULL THEN p.dirtyItem
  ELSE IF Has(p.prevItem) THEN p.prevItem ELSE p.item
\* in gen 1 a preset agreeing on all that gen 1 compares is applied
Gen1IgnoresItem ==
  ( /\ Answered /\ Identified /\ PresetGen = 1
    /\ Agree({"moves", "ivs"}) /\ pokemon.moves # <<>> )
  => applied.value

\* C14 (as stated): from gen 2 on a preset is applied only if the combatant's
\* resolved item is there and equals the preset's item, the previous item
\* standing in for the current one only where the current item is empty; in
\* gen 1 the item is not compared.
C14_ItemAsStated ==
  /\ (Answered /\ Identified /\ PresetGen >= 2 /\ applied.value)
       => (Has(ItemUnlessRemoved(pokemon)) /\ ItemUnlessRemoved(pokemon) = preset.item)
  /\ Gen1IgnoresItem

\* C14 (amended): the same with the resolved item being the item override when
\* it is not null, else the previous item whenever it is non-empty (whether or
\* not the combatant holds an item now), else the current item.
C14_Item ==
  /\ (Answered /\ Identified /\ PresetGen >= 2 /\ applied.value)
       => (Has(ItemPreferPrev(pokemon)) /\ ItemPreferPrev(pokemon) = preset.item)
  /\ Gen1IgnoresItem

\* a combatant holding an item matches the preset naming its previous item
C14_Witness ==
  /\ Answered /\ applied.value /\ format = "gen9ou"
  /\ pokemon.dirtyItem = NULL
  /\ pokemon.item = "Choice Band" /\ pokemon.prevItem = "Leftovers"
  /\ preset.item = "Leftovers"

\* the ability override when it is set, else the base ability
AbilityOverBase(p) == IF Has(p.dirtyAbility) THEN p.dirtyAbility ELSE p.ability

\* C15: in non-legacy gens a preset is applied only if the combatant's nature
\* is the preset's and its resolved ability (the override over the base) is the
\* preset's; in legacy gens neither the nature nor the ability bears on the
\* result, which is true as soon as the item (gen 2), moves and IVs agree.
C15_NatureAbility ==
  /\ (Answered /\ Identified /\ ~PresetLegacy /\ applied.value)
       => /\ Has(pokemon.nature) /\ pokemon.nature = preset.nature
          /\ Has(AbilityOverBase(pokemon))
          /\ AbilityOverBase(pokemon) = preset.ability
  /\ ( /\ Answered /\ Identified /\ PresetLegacy
       /\ Agree({"item", "moves", "ivs"}) /\ pokemon.moves # <<>>
       /\ PresetGen >= 2 => Has(preset.item) )
       => applied.value

\* an overridden ability matches the preset naming the override
C15_Witness ==
  /\ Answered /\ applied.value /\ format = "gen9ou"
  /\ pokemon.nature = "Hardy" /\ preset.nature = "Hardy"
  /\ pokemon.ability = "Static" /\ pokemon.dirtyAbility = "Protean"
  /\ preset.ability = "Protean"

\* the preset's IV or EV for a stat, the default where the preset omits it
PresetValue(table, s, default) == IF table[s] # NullNum THEN table[s] ELSE default
\* the IVs of the combatant, but for the stats in skipped, are the preset's
IvsEqual(skipped, default) ==
  \A s \in Stats \ skipped :
    pokemon.ivs[s] # NullNum => pokemon.ivs[s] = PresetValue(preset.ivs, s, default)
EvsEqual ==
  \A s \in Stats :
    pokemon.evs[s] # NullNum => pokemon.evs[s] = PresetValue(preset.evs, s, 0)

\* C16: in legacy gens the spd IV is skipped (a combatant and a preset that
\* differ in the spd IV alone still match) while every other IV of the
\* combatant must equal the preset's (30 where the preset omits it), and EVs
\* are not compared; in non-legacy gens every IV must equal the preset's (31
\* where omitted) and every EV must equal the preset's (0 where omitted).
C16_IvsEvs ==
  /\ (Answered /\ Identified /\ PresetLegacy /\ applied.value)
       => IvsEqual({"spd"}, 30)
  /\ ( /\ Answered /\ Identified /\ PresetLegacy
       /\ Agree({"item", "moves"}) /\ pokemon.moves # <<>>
       /\ PresetGen >= 2 => Has(preset.item)
       /\ IvsEqual({"spd"}, 30) )
       => applied.value
  /\ (Answered /\ Identified /\ ~PresetLegacy /\ applied.value)
       => (IvsEqual({}, 31) /\ EvsEqual)

\* a nature, ability, item or move list the generation compares is missing on
\* the combatant or on the preset
MissingDatum ==
  \/ ~PresetLegacy /\ (~Has(pokemon.nature) \/ ~Has(preset.nature))
  \/ ~PresetLegacy /\ (~Has(AbilityOverBase(pokemon)) \/ ~Has(preset.ability))
  \/ PresetGen >= 2 /\ (~Has(ItemPreferPrev(pokemon)) \/ ~Has(preset.item))
  \/ pokemon.moves = <<>> \/ preset.moves = <<>>
\* the IVs, or in non-legacy gens the EVs, are missing on either side
MissingSpread ==
  \/ pokemon.ivs = NoTable \/ preset.ivs = NoTable
  \/ ~PresetLegacy /\ (pokemon.evs = NoTable \/ preset.evs = NoTable)

\* C17 (as stated): every call returns a boolean and none throws; the result
\* is false whenever the format is missing or names no generation, the
\* combatant has no species, the preset has no source, or a nature, ability,
\* item, move list, IV table or EV table the generation compares is missing on
\* either side.
C17_TotalAsStated ==
  /\ applied # NotApplied => Answered
  /\ (Answered /\ ~Identified) => ~applied.value
  /\ (Answered /\ Identified /\ (MissingDatum \/ MissingSpread)) => ~applied.value

\* C17 (amended): the same without the IV and EV tables: a combatant without
\* IVs or EVs has none to compare, and the IVs and EVs a preset omits are
\* compared as the defaults, so neither makes the result false.
C17_Total ==
  /\ applied # NotApplied => Answered
  /\ (Answered /\ ~Identified) => ~applied.value
  /\ (Answered /\ Identified /\ MissingDatum) => ~applied.value

\* a preset without a source that otherwise is the combatant's own
C17_Witness ==
  /\ Answered /\ ~applied.value /\ format = "gen9ou"
  /\ pokemon # NoPokemon /\ pokemon.speciesForme = "Greninja"
  /\ preset # NoPreset /\ preset.source = NULL
  /\ Agree(PresetFields) /\ ~MissingDatum

(***************************************************************************)
(* The dehydrators, src/utils/hydro/dehydrators.ts.  A value is a record   *)
(* tagged with its type.  A string is the sequence of its pieces: single   *)
(* characters, and whole words (property names, 'iv', '[object Object]')   *)
(* where no code looks inside one.                                         *)
(***************************************************************************)
Bool(b) == [t |-> "boolean", v |-> b]
Num(n) == [t |-> "number", v |-> n]
Str(s) == [t |-> "string", v |-> s]
Arr(a) == [t |-> "array", v |-> a]
\* an object: its entries <<key, value>> in property order
Obj(e) == [t |-> "object", v |-> e]

\* !!value
Truthy(x) ==
  CASE x.t = "null" -> FALSE
    [] x.t = "boolean" -> x.v
    [] x.t = "number" -> x.v # 0
    [] x.t = "string" -> x.v # <<>>
    [] OTHER -> TRUE

\* value?.[key]
Get(x, key) ==
  IF x.t = "object" /\ \E i \in 1..Len(x.v) : x.v[i][1] = key
  THEN x.v[CHOOSE i \in 1..Len(x.v) : x.v[i][1] = key][2]
  ELSE JsNull

DigitChars == <<"0", "1", "2", "3", "4", "5", "6", "7", "8", "9">>

\* Number.prototype.toString() of a natural number
RECURSIVE NumberToString(_)
NumberToString(n) ==
  IF n < 10 THEN <<DigitChars[n + 1]>>
  ELSE NumberToString(n \div 10) \o <<DigitChars[(n % 10) + 1]>>

\* Array.prototype.join(): null and undefined elements join as ''
RECURSIVE Join(_, _)
Join(strings, delimiter) ==
  IF Len(strings) = 0 THEN <<>>
  ELSE IF Len(strings) = 1 THEN strings[1]
  ELSE strings[1] \o <<delimiter>> \o Join(Tail(strings), delimiter)

\* value.toString() of a value that is neither null nor a boolean; the elements
\* of an array are null, booleans, numbers or strings
toString(x) ==
  LET element(e) ==
        CASE e.t = "null" -> <<>>
          [] e.t = "boolean" -> IF e.v THEN <<"true">> ELSE <<"false">>
          [] e.t = "number" -> NumberToString(e.v)
          [] OTHER -> e.v
  IN CASE x.t = "number" -> NumberToString(x.v)
       [] x.t = "string" -> x.v
       [] x.t = "array" -> Join([i \in 1..Len(x.v) |-> element(x.v[i])], ",")
       [] OTHER -> <<"[object Object]">>

\* line 20 with a pattern that has no pipe
StripNoPipe(s) == SelectSeq(s, LAMBDA c : c \notin {",", ";"})

\* line 20: .replace(/(?:,|;|\|)/g, '')
Strip(s) == SelectSeq(s, LAMBDA c : c \notin {",", ";", "|"})

\* line 8
dehydrateBoolean(b) == IF b THEN <<"y">> ELSE <<"n">>

\* lines 17-21 reading a falsy value (0, the empty string) as a missing one
dehydrateValueFalsy(x) ==
  IF x.t = "boolean" THEN dehydrateBoolean(x.v)
  ELSE IF ~Truthy(x) THEN <<"?">>
  ELSE LET text == Strip(toString(x))
       IN IF text # <<>> THEN text ELSE <<"?">>

\* lines 17-21
dehydrateValue(x) ==
  IF x.t = "boolean" THEN dehydrateBoolean(x.v)
  ELSE IF x.t = "null" THEN <<"?">>
  ELSE LET text == Strip(toString(x))
       IN IF text # <<>> THEN text ELSE <<"?">>

\* lines 35-38: value?.map?.(...) is undefined for null and for what has no map()
dehydrateArray(x, delimiter) ==
  IF x.t = "array"
  THEN Str(Join([i \in 1..Len(x.v) |-> dehydrateValue(x.v[i])], delimiter))
  ELSE JsNull

StatOrder == <<"hp", "atk", "def", "spa", "spd", "spe">>

\* Object.entries(value || {}) / Object.keys(value || {}) of null or an object
EntriesOf(x) == IF x.t = "object" THEN x.v ELSE <<>>

\* the table encoded as the values it has, one after the other
dehydrateStatsTableValuesOnly(x, delimiter) ==
  Str(Join([i \in 1..Len(EntriesOf(x)) |-> dehydrateValue(EntriesOf(x)[i][2])],
           delimiter))

\* lines 58-68
dehydrateStatsTable(x, delimiter) ==
  Str(Join([i \in 1..Len(StatOrder) |-> dehydrateValue(Get(x, StatOrder[i]))],
           delimiter))

\* lines 91-97 without the test for 'conditions'
dehydratePlayerSideAll(x, delimiter) ==
  LET kept == SelectSeq(EntriesOf(x), LAMBDA e : e[1] # "" /\ Truthy(e[2]))
  IN Str(Join([i \in 1..Len(kept) |-> <<kept[i][1], "=">> \o dehydrateValue(kept[i][2])],
              delimiter))

\* lines 91-97
dehydratePlayerSide(x, delimiter) ==
  LET kept == SelectSeq(EntriesOf(x),
                        LAMBDA e : e[1] # "" /\ e[1] # "conditions" /\ Truthy(e[2]))
  IN Str(Join([i \in 1..Len(kept) |-> <<kept[i][1], "=">> \o dehydrateValue(kept[i][2])],
              delimiter))

\* the property names of the model in the order of Array.prototype.sort()
SortedKeys ==
  << "atk", "auth", "conditions", "def", "hp", "isReflect", "isSR",
     "p1", "p2", "p3", "p4", "spa", "spd", "spe", "spikes" >>

\* Object.keys(value || {}) left in property order
KeysUnsorted(x) ==
  [i \in 1..Len(EntriesOf(x)) |-> EntriesOf(x)[i][1]]

\* Object.keys(value || {}).sort()
KeysSorted(x) ==
  SelectSeq(SortedKeys, LAMBDA k : \E i \in 1..Len(EntriesOf(x)) : EntriesOf(x)[i][1] = k)

\* lines 128-139
dehydratePerSide(x, delimiter, arrayDelimiter) ==
  LET keys == KeysSorted(x)
      slot(k) == IF Get(x, k).t = "array"
                 THEN dehydrateArray(Get(x, k), arrayDelimiter).v
                 ELSE dehydrateValue(Get(x, k))
  IN Str(Join([i \in 1..Len(keys) |-> slot(keys[i])], delimiter))

(***************************************************************************)
(* Calls of the dehydrators.  An encoder is handed two values, so that     *)
(* what it returns for the one can be held against what it returns for the *)
(* other.                                                                  *)
(***************************************************************************)
MaxLen == 2
MaxNum == 11
MaxItems == 2

Chars == {"y", "?", ",", ";", "|"}
Strings == UNION { [1..n -> Chars] : n \in 0..MaxLen }
Scalars ==
  {JsNull} \cup {Bool(b) : b \in BOOLEAN} \cup {Num(n) : n \in 0..MaxNum}
    \cup {Str(s) : s \in Strings}
ValueInputs ==
  Scalars \cup {Arr(<<>>), Arr(<<Str(<<"y">>), Num(1)>>), Obj(<<>>)}

ArrayElements ==
  {JsNull, Bool(TRUE), Str(<<"a">>), Str(<<"a", "/", "a">>)}
ArrayInputs ==
  {JsNull, Str(<<"a">>)}
    \cup {Arr(a) : a \in UNION { [1..n -> ArrayElements] : n \in 0..MaxItems }}

\* an object of the entries whose value is there
ObjOf(entries) == Obj(SelectSeq(entries, LAMBDA e : e[2] # JsNull))

StatsInputs ==
  {JsNull, Obj(<<>>)} \cup
  { ObjOf(<< <<"hp", hp>>, <<"atk", atk>>, <<"def", Num(31)>>, <<"spa", Num(31)>>,
             <<"spd", Num(31)>>, <<"spe", Num(31)>> >>) :
      hp \in {JsNull, Num(0), Num(31)}, atk \in {JsNull, Num(0), Num(31)} }

\* a side with Stealth Rock and Reflect up and nothing else
SideWithScreens ==
  Obj(<< <<"spikes", Num(0)>>, <<"isSR", Bool(TRUE)>>, <<"isReflect", Bool(TRUE)>>,
         <<"isLightScreen", Bool(FALSE)>>, <<"isAuroraVeil", Bool(FALSE)>> >>)

PlayerSideInputs ==
  {JsNull, SideWithScreens} \cup
  { ObjOf(<< <<"conditions", conditions>>, <<"spikes", spikes>>, <<"isSR", isSR>>,
             <<"isReflect", isReflect>> >>) :
      conditions \in {JsNull, Obj(<<>>)},
      spikes \in {JsNull, Num(0), Num(2)},
      isSR \in {JsNull, Bool(TRUE), Bool(FALSE), Str(<<"y">>), Str(<<>>)},
      isReflect \in {JsNull, Bool(TRUE), Bool(FALSE)} }

SideSlots ==
  {JsNull, Bool(TRUE), Arr(<<Str(<<"iv">>)>>),
   Arr(<<Str(<<"iv">>), Str(<<"ev">>)>>)}
\* the settings of every player: {auth: [], p1: ['iv', 'ev'], ..., p4: ['iv', 'ev']}
PerSideLists ==
  LET both == Arr(<<Str(<<"iv">>), Str(<<"ev">>)>>)
  IN Obj(<< <<"p1", both>>, <<"p3", both>>, <<"auth", Arr(<<>>)>>, <<"p4", both>>,
            <<"p2", both>> >>)

PerSideInputs ==
  {JsNull, PerSideLists} \cup
  { ObjOf(<< <<"p4", rest>>, <<"p3", rest>>, <<"p2", p2>>, <<"p1", p1>>,
             <<"auth", auth>> >>) :
      auth \in {JsNull, Bool(FALSE), Arr(<<>>)},
      p1 \in SideSlots, p2 \in SideSlots, rest \in {JsNull, Bool(TRUE)} }

HydroCase(e, x, y) == [encoder |-> e, value |-> x, other |-> y]
HydroCases ==
  {HydroCase("dehydrateValue", x, y) : x \in ValueInputs, y \in ValueInputs}
    \cup {HydroCase("dehydrateArray", x, y) : x \in ArrayInputs, y \in ArrayInputs}
    \cup {HydroCase("dehydrateStatsTable", x, y) : x \in StatsInputs, y \in StatsInputs}
    \cup {HydroCase("dehydratePlayerSide", x, y) :
            x \in PlayerSideInputs, y \in PlayerSideInputs}
    \cup {HydroCase("dehydratePerSide", x, y) : x \in PerSideInputs, y \in PerSideInputs}

NotEncoded == [kind |-> "pending"]
\* what the encoder returned for value and for other
Encodings(a, b) == [kind |-> "returned", value |-> a, other |-> b]

InitHydro ==
  \E c \in HydroCases :
    /\ encoder = c.encoder
    /\ value = c.value
    /\ other = c.other
    /\ dehydrated = NotEncoded
    /\ format = NULL
    /\ dexLoaded = FALSE
    /\ pokemon = NoPokemon
    /\ opponentPokemon = NoPokemon
    /\ field = NoField
    /\ moveName = NULL
    /\ smogonPokemon = Idle
    /\ smogonOpponent = Idle
    /\ preset = NoPreset
    /\ applied = Idle
    /\ moveOptions = Idle

\* dehydrateValue(value), dehydrateValue(other)
DehydrateValue ==
  /\ encoder = "dehydrateValue" /\ dehydrated = NotEncoded
  /\ dehydrated' = Encodings(Str(dehydrateValue(value)), Str(dehydrateValue(other)))
  /\ UNCHANGED <<calcVars, presetVars, encoder, value, other, moveVars>>

\* dehydrateArray(value), dehydrateArray(other)
DehydrateArray ==
  /\ encoder = "dehydrateArray" /\ dehydrated = NotEncoded
  /\ dehydrated' = Encodings(dehydrateArray(value, "/"), dehydrateArray(other, "/"))
  /\ UNCHANGED <<calcVars, presetVars, encoder, value, other, moveVars>>

\* dehydrateStatsTable(value), dehydrateStatsTable(other)
DehydrateStatsTable ==
  /\ encoder = "dehydrateStatsTable" /\ dehydrated = NotEncoded
  /\ dehydrated' = Encodings(dehydrateStatsTable(value, "/"),
                            dehydrateStatsTable(other, "/"))
  /\ UNCHANGED <<calcVars, presetVars, encoder, value, other, moveVars>>

\* dehydratePlayerSide(value), dehydratePlayerSide(other)
DehydratePlayerSide ==
  /\ encoder = "dehydratePlayerSide" /\ dehydrated = NotEncoded
  /\ dehydrated' = Encodings(dehydratePlayerSide(value, "/"),
                            dehydratePlayerSide(other, "/"))
  /\ UNCHANGED <<calcVars, presetVars, encoder, value, other, moveVars>>

\* dehydratePerSide(value), dehydratePerSide(other)
DehydratePerSide ==
  /\ encoder = "dehydratePerSide" /\ dehydrated = NotEncoded
  /\ dehydrated' = Encodings(dehydratePerSide(value, "/", ","),
                            dehydratePerSide(other, "/", ","))
  /\ UNCHANGED <<calcVars, presetVars, encoder, value, other, moveVars>>

NextHydro ==
  \/ DehydrateValue
  \/ DehydrateArray
  \/ DehydrateStatsTable
  \/ DehydratePlayerSide
  \/ DehydratePerSide

SpecHydro == InitHydro /\ [][NextHydro]_vars

(***************************************************************************)
(* Properties of the dehydrators.                                          *)
(***************************************************************************)
Encoded == dehydrated.kind = "returned"
Delimiters == {",", ";", "|"}

\* no comma, semicolon or pipe anywhere in the value
RECURSIVE NoDelimiters(_)
NoDelimiters(x) ==
  CASE x.t = "string" -> \A i \in 1..Len(x.v) : x.v[i] \notin Delimiters
    [] x.t = "array" -> \A i \in 1..Len(x.v) : NoDelimiters(x.v[i])
    [] x.t = "object" -> \A i \in 1..Len(x.v) : NoDelimiters(x.v[i][2])
    [] OTHER -> TRUE

\* a non-empty string without a comma, semicolon, pipe or slash
PlainString(x) ==
  /\ x.t = "string" /\ x.v # <<>>
  /\ \A i \in 1..Len(x.v) : x.v[i] \notin Delimiters \cup {"/"}
\* a list of booleans, or a list of plain strings
ListOf(x, kind) ==
  /\ x.t = "array"
  /\ \A i \in 1..Len(x.v) :
       IF kind = "boolean" THEN x.v[i].t = "boolean" ELSE PlainString(x.v[i])
KeysOf(x) == {x.v[i][1] : i \in 1..Len(x.v)}

\* the two values are of one shape, in which the encoder called keeps apart
\* what differs
SameShape(x, y) ==
  CASE encoder = "dehydrateValue" ->
         \/ x.t = "boolean" /\ y.t = "boolean"
         \/ x.t = "number" /\ y.t = "number"
         \/ PlainString(x) /\ PlainString(y)
    [] encoder = "dehydrateArray" ->
         \E kind \in {"boolean", "string"} : ListOf(x, kind) /\ ListOf(y, kind)
    [] encoder = "dehydrateStatsTable" ->
         /\ x.t = "object" /\ y.t = "object"
         /\ \A i \in 1..Len(x.v) : x.v[i][2].t = "number"
         /\ \A i \in 1..Len(y.v) : y.v[i][2].t = "number"
    [] encoder = "dehydratePlayerSide" ->
         /\ x.t = "object" /\ y.t = "object"
         /\ \A z \in {x, y} : \A i \in 1..Len(z.v) :
              /\ z.v[i][1] # "conditions"
              /\ z.v[i][2].t \in {"boolean", "number"} /\ Truthy(z.v[i][2])
    [] OTHER ->
         /\ x.t = "object" /\ y.t = "object" /\ KeysOf(x) = KeysOf(y)
         /\ \A k \in KeysOf(x) :
              \/ Get(x, k).t = "boolean" /\ Get(y, k).t = "boolean"
              \/ ListOf(Get(x, k), "string") /\ ListOf(Get(y, k), "string")

\* C18 (as stated): every encoder is injective over values that hold no comma,
\* semicolon or pipe: it never returns the same text for two different values.
C18_InjectiveAsStated ==
  (Encoded /\ value # other /\ NoDelimiters(value) /\ NoDelimiters(other))
  => dehydrated.value # dehydrated.other

\* C18 (amended): every encoder is injective over values of one shape: for
\* dehydrateValue two booleans, two numbers or two plain strings; for
\* dehydrateArray two lists of booleans or two lists of plain strings; for
\* dehydrateStatsTable two tables of numbers; for dehydratePlayerSide two
\* sides without conditions whose values are truthy booleans and numbers; for
\* dehydratePerSide two records with the same keys, each key holding a boolean
\* in both or a list of plain strings in both.
C18_Injective ==
  (Encoded /\ value # other /\ SameShape(value, other))
  => dehydrated.value # dehydrated.other

\* two tables that hold the same numbers in different slots
C18_Witness ==
  /\ Encoded /\ encoder = "dehydrateStatsTable"
  /\ Get(value, "hp") = Num(31) /\ Get(value, "atk") = JsNull
  /\ Get(other, "hp") = JsNull /\ Get(other, "atk") = Num(31)
  /\ dehydrated.value.v[1] = "3" /\ dehydrated.other.v[1] = "?"

IsString(r) == r.t = "string"
\* '?', a '?' in every slot, or the empty string
PlaceholderText(r) ==
  /\ IsString(r)
  /\ \/ r.v = <<>>
     \/ r.v = <<"?">>
     \/ r.v = Join([i \in 1..Len(StatOrder) |-> <<"?">>], "/")

\* C19: no encoder throws; what an encoder returns is always a string, that of
\* dehydrateArray included; and for an absent value it returns '?', a '?' in
\* every slot, or the empty string.
C19_AlwaysString ==
  Encoded =>
    /\ IsString(dehydrated.value) /\ IsString(dehydrated.other)
    /\ value = JsNull => PlaceholderText(dehydrated.value)
    /\ other = JsNull => PlaceholderText(dehydrated.other)

\* the text of a value with every comma, semicolon and pipe taken out
TextWithoutDelimiters(x) == SelectSeq(toString(x), LAMBDA c : c \notin Delimiters)
\* the two calls: what was handed in and what came back
ValueCalls == {<<value, dehydrated.value>>, <<other, dehydrated.other>>}
NeverDelimiterNorEmpty(r) ==
  r.v # <<>> /\ \A i \in 1..Len(r.v) : r.v[i] \notin Delimiters

\* C20 (as stated): dehydrateValue returns 'y' for true and 'n' for false, for
\* every other value that is there its text with every comma, semicolon and
\* pipe removed, and '?' for an absent one (null, undefined or the empty
\* string); what it returns holds no comma, semicolon or pipe and is never the
\* empty string.
C20_ValueAsStated ==
  (Encoded /\ encoder = "dehydrateValue") =>
    \A c \in ValueCalls :
      /\ c[1] = Bool(TRUE) => c[2] = Str(<<"y">>)
      /\ c[1] = Bool(FALSE) => c[2] = Str(<<"n">>)
      /\ c[1] \in {JsNull, Str(<<>>)} => c[2] = Str(<<"?">>)
      /\ (c[1].t \notin {"boolean", "null"} /\ c[1] # Str(<<>>))
           => c[2] = Str(TextWithoutDelimiters(c[1]))
      /\ NeverDelimiterNorEmpty(c[2])

\* C20 (amended): the same, but a value whose text is empty once the commas,
\* semicolons and pipes are removed (a string of nothing but those characters,
\* an empty list) is returned as '?', like an absent one.
C20_Value ==
  (Encoded /\ encoder = "dehydrateValue") =>
    \A c \in ValueCalls :
      /\ c[1] = Bool(TRUE) => c[2] = Str(<<"y">>)
      /\ c[1] = Bool(FALSE) => c[2] = Str(<<"n">>)
      /\ c[1] = JsNull => c[2] = Str(<<"?">>)
      /\ c[1].t \notin {"boolean", "null"} =>
           c[2] = Str(IF TextWithoutDelimiters(c[1]) = <<>> THEN <<"?">>
                      ELSE TextWithoutDelimiters(c[1]))
      /\ NeverDelimiterNorEmpty(c[2])

\* one string of delimiters alone, one with a delimiter in it
C20_Witness ==
  /\ Encoded /\ encoder = "dehydrateValue"
  /\ value = Str(<<",", "|">>) /\ dehydrated.value = Str(<<"?">>)
  /\ other = Str(<<"y", ";">>) /\ dehydrated.other = Str(<<"y">>)

\* the two calls of an encoder: what was handed in and what came back
EncoderCalls == {<<value, dehydrated.value>>, <<other, dehydrated.other>>}
\* the slot of a stat: its number in digits, '?' where the table has none
StatSlot(x, s) == IF Get(x, s) = JsNull THEN <<"?">> ELSE NumberToString(Get(x, s).v)

\* C21: dehydrateStatsTable always returns six slots separated by '/', in the
\* order hp, atk, def, spa, spd, spe, whatever stats the table holds (a null
\* table included): a missing stat gives '?' in its slot and a stat of 0 gives
\* '0', so the i-th slot is always the i-th stat's.
C21_SixSlots ==
  (Encoded /\ encoder = "dehydrateStatsTable") =>
    \A c \in EncoderCalls :
      /\ c[2] = Str(StatSlot(c[1], "hp") \o <<"/">> \o StatSlot(c[1], "atk") \o <<"/">>
                      \o StatSlot(c[1], "def") \o <<"/">> \o StatSlot(c[1], "spa")
                      \o <<"/">> \o StatSlot(c[1], "spd") \o <<"/">>
                      \o StatSlot(c[1], "spe"))
      /\ Len(SelectSeq(c[2].v, LAMBDA ch : ch = "/")) = 5
      /\ Get(c[1], "atk") = Num(0) => c[2].v[Len(StatSlot(c[1], "hp")) + 2] = "0"

\* {hp: 31, atk: 0, def: 31, ...} gives '31/0/31/31/31/31', the null table six '?'
C21_Witness ==
  /\ Encoded /\ encoder = "dehydrateStatsTable"
  /\ Get(value, "hp") = Num(31) /\ Get(value, "atk") = Num(0)
  /\ dehydrated.value =
       Str(<<"3", "1", "/", "0", "/", "3", "1", "/", "3", "1", "/", "3", "1", "/", "3", "1">>)
  /\ other = JsNull
  /\ dehydrated.other = Str(<<"?", "/", "?", "/", "?", "/", "?", "/", "?", "/", "?">>)

SideKeys == <<"auth", "p1", "p2", "p3", "p4">>
\* the segment of a slot: the elements of a list joined with ',', else the
\* encoding of the value
Segment(x) ==
  IF x.t = "array"
  THEN Join([i \in 1..Len(x.v) |-> dehydrateValue(x.v[i])], ",")
  ELSE dehydrateValue(x)

\* C22: dehydratePerSide encodes the slots auth, p1, p2, p3, p4 in sorted key
\* order joined with '/', so that the position of a segment tells its slot: a
\* slot holding a list is encoded as its elements joined with ',', any other
\* slot as dehydrateValue encodes it.
C22_PerSide ==
  (Encoded /\ encoder = "dehydratePerSide") =>
    \A c \in EncoderCalls :
      (c[1].t = "object" /\ KeysOf(c[1]) = {SideKeys[i] : i \in 1..5})
      => c[2] = Str(Segment(Get(c[1], "auth")) \o <<"/">> \o Segment(Get(c[1], "p1"))
                      \o <<"/">> \o Segment(Get(c[1], "p2")) \o <<"/">>
                      \o Segment(Get(c[1], "p3")) \o <<"/">> \o Segment(Get(c[1], "p4")))

\* {auth: [], p1..p4: ['iv', 'ev']} gives '/iv,ev/iv,ev/iv,ev/iv,ev' and
\* {auth: false, p1..p4: true} gives 'n/y/y/y/y'
C22_Witness ==
  /\ Encoded /\ encoder = "dehydratePerSide"
  /\ value = PerSideLists
  /\ dehydrated.value =
       Str(<<"/", "iv", ",", "ev", "/", "iv", ",", "ev", "/", "iv", ",", "ev",
             "/", "iv", ",", "ev">>)
  /\ Get(other, "auth") = Bool(FALSE)
  /\ \A i \in 2..5 : Get(other, SideKeys[i]) = Bool(TRUE)
  /\ dehydrated.other = Str(<<"n", "/", "y", "/", "y", "/", "y", "/", "y">>)

\* the 'key=value' pairs of the entries that have a truthy value and are not
\* the conditions, in the order of the entries
RECURSIVE PairsOf(_)
PairsOf(entries) ==
  IF entries = <<>> THEN <<>>
  ELSE LET e == Head(entries)
       IN (IF Truthy(e[2]) /\ e[1] # "conditions"
           THEN << <<e[1], "=">> \o dehydrateValue(e[2]) >> ELSE <<>>)
            \o PairsOf(Tail(entries))
\* the property names in an encoded side
NamesIn(r) == {r.v[i] : i \in {j \in 1..Len(r.v) : j < Len(r.v) /\ r.v[j + 1] = "="}}

\* C23: dehydratePlayerSide returns one 'key=value' pair, joined with '/', for
\* exactly the properties of the side whose value is truthy and whose key is
\* not 'conditions', in the side's property order; a property with a falsy
\* value (false, 0, null, the empty string) and the conditions never appear.
C23_PlayerSide ==
  (Encoded /\ encoder = "dehydratePlayerSide") =>
    \A c \in EncoderCalls :
      /\ c[2] = Str(Join(PairsOf(IF c[1].t = "object" THEN c[1].v ELSE <<>>), "/"))
      /\ "conditions" \notin NamesIn(c[2])
      /\ c[1].t = "object" =>
           \A i \in 1..Len(c[1].v) :
             ~Truthy(c[1].v[i][2]) => c[1].v[i][1] \notin NamesIn(c[2])

\* {spikes: 0, isSR: true, isReflect: true, isLightScreen: false,
\*  isAuroraVeil: false} gives 'isSR=y/isReflect=y'; the conditions are left out
C23_Witness ==
  /\ Encoded /\ encoder = "dehydratePlayerSide"
  /\ value = SideWithScreens
  /\ dehydrated.value = Str(<<"isSR", "=", "y", "/", "isReflect", "=", "y">>)
  /\ Get(other, "conditions") = Obj(<<>>) /\ Get(other, "spikes") = Num(2)
  /\ Get(other, "isSR") = JsNull /\ Get(other, "isReflect") = Bool(FALSE)
  /\ dehydrated.other = Str(<<"spikes", "=", "2">>)


(***************************************************************************)
(* Properties of the adapter over its inputs and its other consumers.      *)
(***************************************************************************)

\* a step in which one of the two calls returned
Returns ==
  \/ smogonPokemon = Pending /\ smogonPokemon' # Pending
  \/ smogonOpponent = Pending /\ smogonOpponent' # Pending

\* the same call made again, on the snapshot the first call left
PlayerAgain ==
  createSmogonPokemon(format', dexLoaded', pokemon', moveName',
                      opponentPokemon', field')
OpponentAgain ==
  createSmogonPokemon(format', dexLoaded', opponentPokemon', moveName',
                      pokemon', field')

\* C24: a call leaves the combatant (base stats, overrides, transformed stats,
\* IVs, EVs, boosts, types, volatiles and every other field), the opponent and
\* the field as they were, in every generation, transformed or under Power
\* Trick; so the same call on the same snapshot returns equal options again.
C24_InputsUnchanged ==
  [][ Returns =>
        /\ pokemon' = pokemon
        /\ opponentPokemon' = opponentPokemon
        /\ field' = field
        /\ format' = format /\ moveName' = moveName
        /\ (smogonPokemon = Pending /\ smogonPokemon' # Pending)
             => smogonPokemon' = PlayerAgain
        /\ (smogonOpponent = Pending /\ smogonOpponent' # Pending)
             => smogonOpponent' = OpponentAgain ]_vars

\* a gen 1 call on a transformed combatant under Power Trick was built, and the
\* combatant still has the base stats it was called with
C24_Witness ==
  /\ Gen = 1
  /\ smogonPokemon.kind = "pokemon"
  /\ TruthyStr(pokemon.transformedForme)
  /\ "powertrick" \in pokemon.volatiles
  /\ \E i \in DOMAIN smogonPokemon.ran : smogonPokemon.ran[i] = "gen1"
  /\ \E i \in DOMAIN smogonPokemon.ran : smogonPokemon.ran[i] = "powertrick"
  /\ smogonPokemon.options.baseStats # pokemon.baseStats
  /\ pokemon.baseStats = BasePokemon.baseStats


\* the combatant without the 'powertrick' volatile, every other field the same
WithoutPowerTrick(p) == [p EXCEPT !.volatiles = @ \ {"powertrick"}]

\* the base stats the call of c would send for that combatant
SentWithoutPowerTrick(c) ==
  createSmogonPokemon(format, dexLoaded, WithoutPowerTrick(c.p), moveName,
                      c.opp, field).options.baseStats

\* C25: under 'powertrick' the atk and def base stats sent are those sent
\* without the volatile, exchanged (so after the overrides and after a
\* transformation), and hp, spa, spd and spe are the same; without the volatile
\* nothing is exchanged.
C25_PowerTrick ==
  \A c \in Calls : Built(c) =>
    LET sent == c.r.options.baseStats
        plain == SentWithoutPowerTrick(c)
    IN IF "powertrick" \in c.p.volatiles
       THEN /\ sent["atk"] = plain["def"]
            /\ sent["def"] = plain["atk"]
            /\ \A s \in Stats \ {"atk", "def"} : sent[s] = plain[s]
       ELSE /\ sent = plain
            /\ \A i \in DOMAIN c.r.ran : c.r.ran[i] # "powertrick"
            /\ ~TruthyStr(c.p.transformedForme) =>
                 /\ sent["atk"] = ResolveBaseStats(c.p)["atk"]
                 /\ sent["def"] = ResolveBaseStats(c.p)["def"]

\* a transformed combatant under Power Trick was sent the transformed atk and
\* def exchanged, and its opponent, without the volatile, its own in place
C25_Witness ==
  /\ smogonPokemon.kind = "pokemon" /\ smogonOpponent.kind = "pokemon"
  /\ "powertrick" \in pokemon.volatiles
  /\ pokemon.transformedBaseStats = Table(20, 6, 7, 8, 9, 11)
  /\ smogonPokemon.options.baseStats["atk"] = 7
  /\ smogonPokemon.options.baseStats["def"] = 6
  /\ smogonPokemon.options.baseStats["hp"] = 10
  /\ "powertrick" \notin opponentPokemon.volatiles
  /\ smogonOpponent.options.baseStats["atk"] = 1
  /\ smogonOpponent.options.baseStats["def"] = 2


\* C26: a built result agrees with its generation.  In gens 1 and 2 the
\* ability sent is null, the nature sent is null and abilityOn is not true,
\* whatever the ability, its override and its toggle; in gen 1 the item sent
\* is null, whatever the item and its override.
C26_GenerationConsistent ==
  \A c \in Calls : Built(c) =>
    /\ Legacy => /\ c.r.options.ability = NULL
                 /\ c.r.options.nature = NULL
                 /\ c.r.options.abilityOn # TRUE
    /\ Gen = 1 => c.r.options.item = NULL

\* a gen 1 call for a combatant with an ability, a nature, an item and an item
\* override was built with none of them
C26_Witness ==
  /\ Gen = 1
  /\ smogonPokemon.kind = "pokemon"
  /\ pokemon.ability = "Static" /\ pokemon.nature = "Hardy"
  /\ pokemon.item = "Leftovers" /\ pokemon.dirtyItem = "Choice Band"
  /\ smogonPokemon.options.ability = NULL
  /\ smogonPokemon.options.nature = NULL
  /\ smogonPokemon.options.abilityOn = FALSE
  /\ smogonPokemon.options.item = NULL


\* the id of the ability each consumer resolves for a combatant: the adapter for
\* the combatant itself (line 78), the adapter for it as the opponent of a Ruin
\* ability (line 280), appliedPreset (line 658)
OwnAbilityId(p) == formatId(ResolveAbility(FALSE, p))
RuinAbilityId(p) == OpponentAbilityId(p)
PresetAbilityId(p) == formatId(PokemonAbility(p))

\* C27: for every combatant of a non-legacy call, with the ability override
\* absent, empty or set, the three consumers resolve the same ability.
C27_SameAbility ==
  \A c \in Calls : (Built(c) /\ ~Legacy) =>
    /\ OwnAbilityId(c.p) = RuinAbilityId(c.p)
    /\ OwnAbilityId(c.p) = PresetAbilityId(c.p)


(***************************************************************************)
(* buildMoveOptions(), lines 345-567 of the same file: the groups of the   *)
(* move dropdown.  A group is a label and a list of options, an option a   *)
(* label and the move name it stands for.  The usage text at the right of  *)
(* an option (rightLabel) is read by no step and is left out.  A list the  *)
(* combatant lacks is the empty list (the code tests list?.length).        *)
(***************************************************************************)
\* the names of BattleMovedex, in key order (Dex and BattleMovedex loaded)
DexMoveNames ==
  <<"Tackle", "Surf", "Thunder", "Hidden Power Ice", "Hidden Power Fire">>

\* Array.prototype.sort() on move names: the order of the names as strings
MoveOrder ==
  <<"Hidden Power Fire", "Hidden Power Ice", "Surf", "Tackle", "Thunder">>

\* formatId(n) starts with 'hiddenpower' (line 504); all of these names also
\* match /^hiddenpower[a-z]*$/i (line 525)
IsHiddenPower(n) == n \in {"Hidden Power Fire", "Hidden Power Ice"}

\* @showdex/consts LegalLockedFormats: formats whose moves are those learned
LegalLockedFormats == {"ou"}

\* line 358: format?.replace(/^gen\d+/i, '')
GenlessFormat(f) ==
  CASE f = NULL -> NULL
    [] f \in {"gen1ou", "gen2ou", "gen9ou"} -> "ou"
    [] f = "gen9customgame" -> "customgame"
    [] OTHER -> f

\* getPokemonLearnset(): the moves a forme learns, none for an unknown forme
getPokemonLearnset(f, forme, showAllMoves) ==
  CASE forme = "Greninja" -> <<"Surf", "Tackle", "Hidden Power Fire">>
    [] forme = "Mew" -> <<"Tackle", "Thunder">>
    [] OTHER -> <<>>

\* getZMove() and getMaxMove(): the Z or Max move shown for a move, if any
getZMove(name, item) ==
  IF name = "Surf" /\ item = "Waterium Z" THEN "Hydro Vortex" ELSE NULL
getMaxMove(name, ability, speciesForme) ==
  CASE name = "Surf" -> "Max Geyser"
    [] name = "Thunder" -> "Max Lightning"
    [] name = "Tackle" -> "Max Strike"
    [] OTHER -> NULL

\* flattenAlt(): the name of an alternative, a name or a [name, usage] pair
flattenAlt(a) == a.name
flattenAlts(alts) == [i \in 1..Len(alts) |-> flattenAlt(alts[i])]

Range(list) == {list[i] : i \in 1..Len(list)}

RECURSIVE SortFrom(_, _)
SortFrom(names, i) ==
  IF i > Len(MoveOrder) THEN <<>>
  ELSE SelectSeq(names, LAMBDA n : n = MoveOrder[i]) \o SortFrom(names, i + 1)
\* names.sort()
Sort(names) == SortFrom(names, 1)
\* Array.from(new Set(names)).sort(), over the names kept
SortSet(names) == SelectSeq(MoveOrder, LAMBDA n : n \in names)

\* a name as its own option (label: name, value: name)
OptionOf(label, name) == [label |-> label, value |-> name]
GroupOf(label, names) ==
  [label |-> label,
   options |-> [i \in 1..Len(names) |-> OptionOf(names[i], names[i])]]

\* line 359
ShowAllMoves(f) ==
  ~TruthyStr(GenlessFormat(f)) \/ GenlessFormat(f) \notin LegalLockedFormats

\* the filter of lines 414, 429, 445 without the names already listed
FilterNamed(list, filterMoves) == SelectSeq(list, LAMBDA n : TruthyStr(n))

\* lines 414, 429, 445: filter((n) => !!n && !filterMoves.includes(n))
FilterListed(list, filterMoves) ==
  SelectSeq(list, LAMBDA n : TruthyStr(n) /\ n \notin Range(filterMoves))

\* what a step of the body leaves: the groups so far and the names listed
Listed(options, filterMoves) ==
  [options |-> options, filterMoves |-> filterMoves]

\* lines 387-397
ZPower(p, w) ==
  IF p.useZ /\ ~p.useMax /\ Len(p.moves) > 0
  THEN Listed(Append(w.options,
                [label |-> "Z-PWR",
                 options |-> [i \in 1..Len(p.moves) |->
                   OptionOf(OrStr(getZMove(p.moves[i],
                                           CoalesceStr(p.dirtyItem, p.item)),
                                  p.moves[i]),
                            p.moves[i])]]),
              w.filterMoves \o p.moves)
  ELSE w

\* lines 400-411
MaxPower(p, w) ==
  IF p.useMax /\ Len(p.moves) > 0
  THEN Listed(Append(w.options,
                [label |-> "Max",
                 options |-> [i \in 1..Len(p.moves) |->
                   OptionOf(OrStr(getMaxMove(p.moves[i],
                                             CoalesceStr(p.dirtyAbility, p.ability),
                                             p.speciesForme),
                                  p.moves[i]),
                            p.moves[i])]]),
              w.filterMoves \o p.moves)
  ELSE w

\* lines 413-426
CurrentMoves(p, w) ==
  IF p.serverSourced /\ Len(p.serverMoves) > 0
  THEN LET filteredServerMoves == FilterListed(p.serverMoves, w.filterMoves)
       IN Listed(Append(w.options,
                   GroupOf(IF TruthyStr(p.transformedForme)
                           THEN "Pre-Transform" ELSE "Current",
                           filteredServerMoves)),
                 w.filterMoves \o filteredServerMoves)
  ELSE w

\* lines 428-441: unshift() puts the group first
TransformedMoves(p, w) ==
  IF TruthyStr(p.transformedForme) /\ Len(p.transformedMoves) > 0
  THEN LET filteredTransformedMoves ==
             FilterListed(p.transformedMoves, w.filterMoves)
       IN Listed(<<GroupOf("Transformed", filteredTransformedMoves)>> \o w.options,
                 w.filterMoves \o filteredTransformedMoves)
  ELSE w

\* lines 443-457
RevealedMoves(p, w) ==
  IF Len(p.revealedMoves) > 0
  THEN LET filteredRevealedMoves == FilterListed(p.revealedMoves, w.filterMoves)
       IN Listed(Append(w.options, GroupOf("Revealed", filteredRevealedMoves)),
                 w.filterMoves \o filteredRevealedMoves)
  ELSE w

\* lines 459-480: with usage stats the pool keeps its order, else it is sorted
PoolMoves(p, w) ==
  IF Len(p.altMoves) > 0
  THEN LET unsortedPoolMoves ==
             SelectSeq(p.altMoves,
                       LAMBDA a : /\ TruthyStr(flattenAlt(a))
                                  /\ flattenAlt(a) \notin Range(w.filterMoves))
           hasUsageStats == \E i \in 1..Len(p.altMoves) :
                              p.altMoves[i].usage # NullNum
           poolMoves == IF hasUsageStats THEN flattenAlts(unsortedPoolMoves)
                        ELSE Sort(flattenAlts(unsortedPoolMoves))
       IN Listed(Append(w.options, GroupOf("Pool", poolMoves)),
                 w.filterMoves \o poolMoves)
  ELSE w

\* lines 496-500
LearnsetOf(f, p) ==
  getPokemonLearnset(f, p.speciesForme, ShowAllMoves(f))
    \o (IF TruthyStr(p.transformedForme)
        THEN getPokemonLearnset(f, p.transformedForme, ShowAllMoves(f))
        ELSE <<>>)

\* lines 502-517
LearnsetMoves(f, p, w) ==
  IF Len(LearnsetOf(f, p)) > 0
  THEN LET learnsetMoves ==
             SortSet({n \in Range(LearnsetOf(f, p)) :
                        /\ TruthyStr(n) /\ ~IsHiddenPower(n)
                        /\ n \notin Range(w.filterMoves)})
       IN Listed(Append(w.options, GroupOf("Learnset", learnsetMoves)),
                 w.filterMoves \o learnsetMoves)
  ELSE w

\* lines 520-540
HiddenPowerMoves(gen, w) ==
  IF gen > 1
  THEN LET hpMoves ==
             SortSet({n \in Range(DexMoveNames) :
                        /\ TruthyStr(n) /\ IsHiddenPower(n)
                        /\ n \notin Range(w.filterMoves)})
       IN Listed(Append(w.options, GroupOf("Hidden Power", hpMoves)),
                 w.filterMoves \o hpMoves)
  ELSE w

\* line 552: options.findIndex((o) => o.label === 'Hidden Power'), from 0
HiddenPowerIndex(options) ==
  IF \E i \in 1..Len(options) : options[i].label = "Hidden Power"
  THEN (CHOOSE i \in 1..Len(options) :
          /\ options[i].label = "Hidden Power"
          /\ \A j \in 1..(i - 1) : options[j].label # "Hidden Power") - 1
  ELSE 0 - 1

\* line 553: Math.max(hiddenPowerIndex, 0)
InsertionIndex(options) ==
  IF HiddenPowerIndex(options) > 0 THEN HiddenPowerIndex(options) ELSE 0

\* lines 544-564: splice(insertionIndex, 0, group)
AllMoves(f, p, w) ==
  IF ShowAllMoves(f) \/ Len(LearnsetOf(f, p)) = 0
  THEN LET otherMoves == Sort(FilterListed(DexMoveNames, w.filterMoves))
           at == InsertionIndex(w.options)
       IN Listed(SubSeq(w.options, 1, at) \o <<GroupOf("All", otherMoves)>>
                   \o SubSeq(w.options, at + 1, Len(w.options)),
                 w.filterMoves)
  ELSE w

\* lines 345-567
buildMoveOptions(f, p) ==
  LET gen == detectGenFromFormat(f)
      w0 == Listed(<<>>, <<>>)
      w1 == ZPower(p, w0)
      w2 == MaxPower(p, w1)
      w3 == CurrentMoves(p, w2)
      w4 == TransformedMoves(p, w3)
      w5 == RevealedMoves(p, w4)
      w6 == PoolMoves(p, w5)
      w7 == LearnsetMoves(f, p, w6)
      w8 == HiddenPowerMoves(gen, w7)
      w9 == AllMoves(f, p, w8)
  IN IF p = NoPokemon \/ ~TruthyStr(p.speciesForme)
     THEN [kind |-> "options", options |-> <<>>]
     ELSE [kind |-> "options", options |-> w9.options]


(***************************************************************************)
(* The combatants the dropdown is built for.                               *)
(***************************************************************************)
\* an alternative move: a bare name, or a name with its usage
Alt(name) == [name |-> name, usage |-> NullNum]
AltUsage(name, usage) == [name |-> name, usage |-> usage]

MoveFormats == {NULL, "gen1ou", "gen9ou", "gen9customgame"}

MovePokemon ==
  [ speciesForme |-> "Greninja", transformedForme |-> NULL,
    serverSourced |-> FALSE, useZ |-> FALSE, useMax |-> FALSE,
    ability |-> "Protean", dirtyAbility |-> NULL,
    item |-> "Waterium Z", dirtyItem |-> NULL,
    moves |-> <<>>, serverMoves |-> <<>>, transformedMoves |-> <<>>,
    revealedMoves |-> <<>>, altMoves |-> <<>> ]

DropdownCase(f, p) == [format |-> f, pokemon |-> p]

DropdownCases ==
  { DropdownCase(f, [MovePokemon EXCEPT
                   !.speciesForme = sf, !.transformedForme = tf,
                   !.serverSourced = ss, !.useZ = z, !.useMax = m,
                   !.moves = mv, !.serverMoves = sm,
                   !.transformedMoves = tm, !.revealedMoves = rm,
                   !.altMoves = am]) :
      f \in MoveFormats,
      sf \in {"Greninja", "Missingno"},
      tf \in {NULL, "Mew"},
      ss \in BOOLEAN, z \in BOOLEAN, m \in BOOLEAN,
      mv \in {<<>>, <<"Surf", "Tackle">>, <<"Hidden Power Ice", "Thunder">>},
      sm \in {<<>>, <<"Surf", "Thunder">>},
      tm \in {<<>>, <<"Thunder", NULL, "Surf">>},
      rm \in {<<>>, <<"Tackle", "Surf">>},
      am \in {<<>>,
              <<Alt("Thunder"), Alt("Surf"), Alt("Hidden Power Ice")>>,
              <<AltUsage("Thunder", 60), AltUsage("Surf", 40)>>} }
    \cup { DropdownCase(f, p) :
             f \in MoveFormats,
             p \in {NoPokemon,
                    [MovePokemon EXCEPT !.speciesForme = NULL],
                    [MovePokemon EXCEPT !.speciesForme = "",
                                        !.moves = <<"Surf">>, !.useZ = TRUE]} }

NotBuilt == [kind |-> "pending"]

InitMoves ==
  \E c \in DropdownCases :
    /\ format = c.format
    /\ pokemon = c.pokemon
    /\ moveOptions = NotBuilt
    /\ dexLoaded = TRUE
    /\ opponentPokemon = NoPokemon
    /\ field = NoField
    /\ moveName = NULL
    /\ smogonPokemon = Idle
    /\ smogonOpponent = Idle
    /\ preset = NoPreset
    /\ applied = Idle
    /\ encoder = NULL
    /\ value = JsNull
    /\ other = JsNull
    /\ dehydrated = Idle

\* buildMoveOptions(format, pokemon)
BuildMoveOptions ==
  /\ moveOptions = NotBuilt
  /\ moveOptions' = buildMoveOptions(format, pokemon)
  /\ UNCHANGED <<calcVars, presetVars, hydroVars>>

NextMoves == BuildMoveOptions

SpecMoves == InitMoves /\ [][NextMoves]_vars

(***************************************************************************)
(* Properties of the move dropdown.                                        *)
(***************************************************************************)
OptionsBuilt == moveOptions.kind = "options"
Groups == moveOptions.options
ValuesOf(group) == {group.options[i].value : i \in 1..Len(group.options)}
Labels == [i \in 1..Len(Groups) |-> Groups[i].label]

\* C28: no move is an option value of more than one group of the list, with
\* or without useZ, useMax, serverSourced and a transformed forme; and a
\* 'Hidden Power' group is the last group, with the 'All' group, if there is
\* one, immediately before it.
C28_GroupsDisjoint ==
  OptionsBuilt =>
    /\ \A i, j \in 1..Len(Groups) :
         i # j => ValuesOf(Groups[i]) \cap ValuesOf(Groups[j]) = {}
    /\ \A i \in 1..Len(Groups) : Groups[i].label = "Hidden Power" =>
         /\ i = Len(Groups)
         /\ \A j \in 1..Len(Groups) : Groups[j].label = "All" => j = i - 1

\* a transformed, server-sourced combatant with Z moves in an unlocked gen 9
\* format: every group but Max is listed, and moves that several of its lists
\* name are each an option once
C28_Witness ==
  /\ OptionsBuilt
  /\ pokemon # NoPokemon
  /\ pokemon.useZ /\ ~pokemon.useMax /\ pokemon.serverSourced
  /\ pokemon.moves = <<"Surf", "Tackle">>
  /\ pokemon.serverMoves = <<"Surf", "Thunder">>
  /\ pokemon.transformedMoves = <<"Thunder", NULL, "Surf">>
  /\ pokemon.revealedMoves = <<"Tackle", "Surf">>
  /\ Len(pokemon.altMoves) = 3
  /\ Labels = <<"Transformed", "Z-PWR", "Pre-Transform", "Revealed", "Pool",
                "Learnset", "All", "Hidden Power">>
  /\ ValuesOf(Groups[2]) = {"Surf", "Tackle"}
  /\ ValuesOf(Groups[3]) = {"Thunder"}
  /\ ValuesOf(Groups[1]) = {}
  /\ ValuesOf(Groups[5]) = {"Hidden Power Ice"}
  /\ ValuesOf(Groups[8]) = {"Hidden Power Fire"}

====
